---- MODULE Spec2Model ----
(***************************************************************************)
(* Model of the prospectus section locator and chunk extractor             *)
(* (src/utils/extractor.js, class ProspectusExtractor).                    *)
(*                                                                         *)
(* Texts are TLA+ strings handled with the JavaScript string operations    *)
(* the source uses (0-based indices, end-exclusive substring, indexOf,     *)
(* trim, the regular expressions written out as matchers).  An extraction  *)
(* run is an async function: one action is one awaited                     *)
(* extractPageText call together with the synchronous code that follows    *)
(* it up to the next await.                                                *)
(***************************************************************************)
EXTENDS Integers, Sequences, FiniteSets, TLC

VARIABLES
    doc,            \* pdfDoc: the page texts the accessor delivers, 1-indexed
    pageTextCache,  \* this.pageTextCache: page number -> cached text
    accessorCalls,  \* number of pdfDoc.getPage calls made, per page number
    faults,         \* accessor failures the environment may still inject
    returned,       \* the strings extractPageText handed back, per page number
    lastCall,       \* the latest call of extractPageText and how it ended
    run,            \* frame of the async operation in progress
    para,           \* one application of extractParagraphContaining
    chunk,          \* one application of extractProfessionalChunks
    session,        \* the content script: its extractor, handlers and suspended run
    popup,          \* the popup: PopupController and its extractInfo flow
    message,        \* one message in the hands of a listener, and its sendResponse
    parse           \* one call of the parser, and its requests to the AI service

vars ==
    <<doc, pageTextCache, accessorCalls, faults, returned, lastCall, run, para, chunk,
      session, popup, message, parse>>

(***************************************************************************)
(* Bounds of the model                                                     *)
(***************************************************************************)
MaxPages == 3          \* longest document of a full run
MaxFailures == 1       \* accessor failures injected in one behaviour
MaxTextLen == 5        \* longest text given to extractParagraphContaining
MaxDirectorsPages == 6 \* longest document searched by findDirectorsSection alone
MaxEndPages == 22      \* longest document searched by findChapterEndPage alone
MaxLead == 60          \* longest text before a party in extractProfessionalChunks
MaxTail == 520         \* longest text after a party in extractProfessionalChunks
MaxFaultyPages == 7    \* longest document searched by findChapterEndPage with a failure
MaxSessionPages == 2   \* longest document opened by the content script
MaxHeadingPages == 2   \* longest document of differently spelled headings
MaxLivePages == 2      \* longest document of a run followed to its end
MaxTwinPages == 2      \* longest document read by two extractors
MaxSummaryPages == 32  \* longest document searched by findSummarySection alone
MaxClicks == 2         \* clicks on the extract button of one popup
MaxMessages == 3       \* messages handled one after the other by a listener
MaxChunkItems == 1     \* items in one role's chunk list handed to the parser

(***************************************************************************)
(* JavaScript string operations                                            *)
(***************************************************************************)
\* F(v), with v evaluated once however often F uses it
With(v, F(_)) == CHOOSE y \in {F(x) : x \in {v}} : TRUE

\* null and undefined of the source, for values that are objects
Null == <<>>

\* the null a failed String.prototype.match returns
NoMatch == "<no match>"

IdlePara == [pc |-> "none"]

IdleChunk == [pc |-> "none"]

IdleSession == [pc |-> "none"]

\* no popup is open, no message is being handled, the parser is not called
Idle == [pc |-> "none"]

Min2(a, b) == IF a <= b THEN a ELSE b

Max2(a, b) == IF a >= b THEN a ELSE b

SetMin(S) == CHOOSE x \in S : \A y \in S : x <= y

SetMax(S) == CHOOSE x \in S : \A y \in S : x >= y

\* String.prototype.substring(a, b): clamps both indices, swaps them if needed
Substring(s, a, b) ==
    LET lo == Max2(0, Min2(a, Len(s)))
        hi == Max2(0, Min2(b, Len(s)))
    IN  IF lo = hi THEN "" ELSE SubSeq(s, Min2(lo, hi) + 1, Max2(lo, hi))

\* s[i], 0-based
CharAt(s, i) == SubSeq(s, i + 1, i + 1)

\* String.prototype.indexOf(t): first 0-based position of t in s, or -1
IndexOf(s, t) ==
    IF \E i \in 0..(Len(s) - Len(t)) : SubSeq(s, i + 1, i + Len(t)) = t
    THEN SetMin({i \in 0..(Len(s) - Len(t)) : SubSeq(s, i + 1, i + Len(t)) = t})
    ELSE -1

\* String.prototype.includes(t)
Includes(s, t) == \E i \in 0..(Len(s) - Len(t)) : SubSeq(s, i + 1, i + Len(t)) = t

\* the white space of \s and of trim() that occurs in the modelled texts
IsSpace(c) == c \in {" ", "\n", "\t"}

\* String.prototype.trim()
Trim(s) ==
    IF \A i \in 0..(Len(s) - 1) : IsSpace(CharAt(s, i)) THEN ""
    ELSE SubSeq(s, SetMin({i \in 0..(Len(s) - 1) : ~IsSpace(CharAt(s, i))}) + 1,
                   SetMax({i \in 0..(Len(s) - 1) : ~IsSpace(CharAt(s, i))}) + 1)

(***************************************************************************)
(* extractParagraphContaining (extractor.js 379-417)                       *)
(***************************************************************************)
RECURSIVE ParagraphStart(_, _, _)
\* the backward loop, lines 385-395
ParagraphStart(pageText, i, startIndex) ==
    IF i < 0 THEN startIndex
    ELSE IF Substring(pageText, i, i + 2) = "\n\n" THEN i + 2
    ELSE IF i = 0 THEN 0
    ELSE With(i - 1, LAMBDA j : ParagraphStart(pageText, j, startIndex))

RECURSIVE ParagraphEnd(_, _, _)
\* the forward loop, lines 398-408
ParagraphEnd(pageText, i, endIndex) ==
    IF ~(i < Len(pageText) - 1) THEN endIndex
    ELSE IF Substring(pageText, i, i + 2) = "\n\n" THEN i
    ELSE IF i = Len(pageText) - 2 THEN Len(pageText)
    ELSE With(i + 1, LAMBDA j : ParagraphEnd(pageText, j, endIndex))

\* the forward loop started at the sentence instead of after it
ParagraphCutInsideSentence(pageText, sentence) ==
    With(IndexOf(pageText, sentence), LAMBDA sentenceIndex :
        IF sentenceIndex = -1 THEN sentence
        ELSE With(ParagraphStart(pageText, sentenceIndex - 1, sentenceIndex),
                  LAMBDA startIndex :
             With(ParagraphEnd(pageText, sentenceIndex, sentenceIndex + Len(sentence)),
                  LAMBDA endIndex :
             With(Substring(pageText, startIndex, endIndex), LAMBDA paragraph :
                  Trim(paragraph)))))

extractParagraphContaining(pageText, sentence) ==
    With(IndexOf(pageText, sentence), LAMBDA sentenceIndex :
        IF sentenceIndex = -1 THEN sentence
        ELSE With(ParagraphStart(pageText, sentenceIndex - 1, sentenceIndex),
                  LAMBDA startIndex :
             With(ParagraphEnd(pageText, sentenceIndex + Len(sentence),
                               sentenceIndex + Len(sentence)),
                  LAMBDA endIndex :
             With(Substring(pageText, startIndex, endIndex), LAMBDA paragraph :
                  Trim(paragraph)))))

(***************************************************************************)
(* Regular expressions of the source, written out as matchers              *)
(***************************************************************************)
UpperLetters == "ABCDEFGHIJKLMNOPQRSTUVWXYZ"

LowerLetters == "abcdefghijklmnopqrstuvwxyz"

UpperSet == {CharAt(UpperLetters, i) : i \in 0..25}

LowerOf == [c \in UpperSet |-> CharAt(LowerLetters, IndexOf(UpperLetters, c))]

LowerChar(c) == IF c \in UpperSet THEN LowerOf[c] ELSE c

IsUpper(c) == c \in UpperSet

RECURSIVE LowerRange(_, _, _)
\* characters lo..hi-1 of s in lower case
LowerRange(s, lo, hi) ==
    IF hi <= lo THEN ""
    ELSE IF hi = lo + 1 THEN LowerChar(CharAt(s, lo))
    ELSE LowerRange(s, lo, (lo + hi) \div 2) \o LowerRange(s, (lo + hi) \div 2, hi)

\* String.prototype.toLowerCase(), character by character
ToLowerCase(s) == LowerRange(s, 0, Len(s))

\* end of the white-space run that starts at i (i itself when there is none)
SkipSpaces(s, i) ==
    SetMin({j \in i..Max2(i, Len(s)) : j >= Len(s) \/ ~IsSpace(CharAt(s, j))})

\* /We\s+are\s+[^.!?]+[.!?]/i tried at position p of text (lower is the text in
\* lower case, which is how the i flag compares): end of the match or -1
WeAreEnd(text, lower, p) ==
    IF SubSeq(lower, p + 1, Min2(p + 2, Len(lower))) # "we" THEN -1
    ELSE With(SkipSpaces(text, p + 2), LAMBDA a :
        IF ~(a > p + 2 /\ SubSeq(lower, a + 1, Min2(a + 3, Len(lower))) = "are"
             /\ a + 3 < Len(text) /\ IsSpace(CharAt(text, a + 3)))
        THEN -1
        ELSE With({t \in (a + 4)..(Len(text) - 1) : CharAt(text, t) \in {".", "!", "?"}},
                  LAMBDA stops :
                      IF stops # {} /\ SetMin(stops) >= a + 5 THEN SetMin(stops) + 1
                      ELSE -1))

\* pageText.match(/We\s+are\s+[^.!?]+[.!?]/i): the first match, or NoMatch
WeAreMatch(text) ==
    With(ToLowerCase(text), LAMBDA lower :
    With({p \in 0..(Len(text) - 1) : WeAreEnd(text, lower, p) # -1}, LAMBDA ps :
        IF ps = {} THEN NoMatch
        ELSE Substring(text, SetMin(ps), WeAreEnd(text, lower, SetMin(ps)))))

IsHeadingChar(c) == IsUpper(c) \/ IsSpace(c) \/ c \in {",", "&"}

\* /^[A-Z][A-Z\s,&]+(?:\n|$)/m tried at line start p: end of the match or -1.
\* The class contains \n, so the greedy run crosses lines and backtracks to
\* its last newline unless it reaches the end of the text.
HeadingEnd(text, p) ==
    IF ~(p < Len(text) /\ IsUpper(CharAt(text, p))) THEN -1
    ELSE With(SetMin({j \in (p + 1)..Len(text) :
                         j = Len(text) \/ ~IsHeadingChar(CharAt(text, j))}), LAMBDA e :
        IF e = Len(text) /\ e >= p + 2 THEN e
        ELSE With({j \in (p + 2)..(e - 1) : CharAt(text, j) = "\n"}, LAMBDA nls :
                IF nls # {} THEN SetMax(nls) + 1 ELSE -1))

\* pageText.match(nextChapterPattern): matches[0] of the first match, or NoMatch
HeadingMatch(text) ==
    With({p \in 0..(Len(text) - 1) :
             /\ p = 0 \/ CharAt(text, p - 1) = "\n"
             /\ HeadingEnd(text, p) # -1}, LAMBDA ps :
        IF ps = {} THEN NoMatch
        ELSE Substring(text, SetMin(ps), HeadingEnd(text, SetMin(ps))))

\* /cayman\s+islands?/i (the third pattern of the list matches only where
\* this one does; the second is the Chinese name, absent from the modelled texts)
CaymanPattern(text) ==
    With(ToLowerCase(text), LAMBDA lower :
        \E p \in 0..(Len(text) - 6) :
           /\ SubSeq(lower, p + 1, p + 6) = "cayman"
           /\ With(SkipSpaces(text, p + 6), LAMBDA q :
                 q > p + 6 /\ Substring(lower, q, q + 6) = "island"))

\* detectCompanyType (extractor.js 303-327)
detectCompanyType(firstPageText) ==
    IF CaymanPattern(firstPageText) THEN "cayman" ELSE "non-cayman"

(***************************************************************************)
(* extractProfessionalChunks (extractor.js 774-931)                        *)
(***************************************************************************)
ChunkBefore == 50

ChunkAfter == 500

SponsorsKeywords ==
    <<"Sponsors", "Sponsor", "Joint Sponsors", "Joint Sponsor",
        "Sole Sponsor">>

AuditorsKeywords ==
    <<"Auditors", "Auditor", "Reporting Accountants",
        "Reporting Accountant">>

IndustryConsultantsKeywords ==
    <<"Industry Consultant", "Industry Consultants">>

LegalAdvisersToCompanyKeywords ==
    <<"Legal Advisers to the Company", "Legal Adviser to the Company",
        "Legal Advisors to the Company", "Legal Advisor to the Company",
        "Legal Advisers to our Company", "Legal Adviser to our Company",
        "Legal Advisors to our Company", "Legal Advisor to our Company",
        "Legal Advisers to Company", "Legal Adviser to Company",
        "Legal Advisors to Company", "Legal Advisor to Company">>

LegalAdvisersToSponsorsKeywords ==
    <<"Legal Advisers to the Sponsors", "Legal Adviser to the Sponsors",
        "Legal Advisors to the Sponsors", "Legal Advisor to the Sponsors",
        "Legal Advisers to Sponsors", "Legal Adviser to Sponsors",
        "Legal Advisors to Sponsors", "Legal Advisor to Sponsors",
        "Legal Advisors to the Sponsor", "Legal Advisers to the Sole Sponsor",
        "Legal Adviser to the Sole Sponsor",
        "Legal Advisors to the Sole Sponsor",
        "Legal Advisor to the Sole Sponsor", "Legal Advisers to Sole Sponsor",
        "Legal Adviser to Sole Sponsor", "Legal Advisors to Sole Sponsor",
        "Legal Advisor to Sole Sponsor", "Legal Advisers to our Sole Sponsor",
        "Legal Adviser to our Sole Sponsor",
        "Legal Advisors to our Sole Sponsor",
        "Legal Advisor to our Sole Sponsor",
        "Legal Advisers to the Joint Sponsors",
        "Legal Adviser to the Joint Sponsors",
        "Legal Advisors to the Joint Sponsors",
        "Legal Advisor to the Joint Sponsors",
        "Legal Advisers to Joint Sponsors", "Legal Adviser to Joint Sponsors",
        "Legal Advisors to Joint Sponsors", "Legal Advisor to Joint Sponsors",
        "Legal Advisers to our Joint Sponsors",
        "Legal Adviser to our Joint Sponsors",
        "Legal Advisors to our Joint Sponsors",
        "Legal Advisor to our Joint Sponsors", "Legal Advisers to the Joint",
        "Legal Adviser to the Joint", "Legal Advisors to the Joint",
        "Legal Advisor to the Joint", "Legal Advisers to Joint",
        "Legal Adviser to Joint", "Legal Advisors to Joint",
        "Legal Advisor to Joint", "Legal Advisers to our Joint",
        "Legal Adviser to our Joint", "Legal Advisors to our Joint",
        "Legal Advisor to our Joint", "Legal Advisers to the Sole",
        "Legal Adviser to the Sole", "Legal Advisors to the Sole",
        "Legal Advisor to the Sole", "Legal Advisers to Sole",
        "Legal Adviser to Sole", "Legal Advisors to Sole",
        "Legal Advisor to Sole", "Legal Advisers to our Sole",
        "Legal Adviser to our Sole", "Legal Advisors to our Sole",
        "Legal Advisor to our Sole", "Legal advisor to the [REDACTED]",
        "Legal advisors to the [REDACTED]", "Legal advisor to our [REDACTED]",
        "Legal advisors to our [REDACTED]">>

\* professionalTypes, lines 780-880
professionalTypes ==
    <<[key |-> "sponsors", keywords |-> SponsorsKeywords],
      [key |-> "auditors", keywords |-> AuditorsKeywords],
      [key |-> "industryConsultants", keywords |-> IndustryConsultantsKeywords],
      [key |-> "legalAdvisersToCompany", keywords |-> LegalAdvisersToCompanyKeywords],
      [key |-> "legalAdvisersToSponsors", keywords |-> LegalAdvisersToSponsorsKeywords]>>

RECURSIVE Tokens(_)
\* the literal pieces of keyword.replace(/\s+/g, '\\s+')
Tokens(keyword) ==
    LET gaps == {i \in 0..(Len(keyword) - 1) : IsSpace(CharAt(keyword, i))}
    IN  IF gaps = {} THEN <<keyword>>
        ELSE <<Substring(keyword, 0, SetMin(gaps))>>
             \o Tokens(Substring(keyword, SkipSpaces(keyword, SetMin(gaps)), Len(keyword)))

\* a piece written [..] is a character class in the regular expression
IsClass(token) ==
    Len(token) >= 2 /\ CharAt(token, 0) = "[" /\ CharAt(token, Len(token) - 1) = "]"

\* one piece (given in lower case) matched at position pos of the lower-cased
\* text, which is how the i flag compares: end of the piece or -1
TokenEnd(lower, pos, token) ==
    IF IsClass(token)
    THEN IF /\ pos < Len(lower)
            /\ Includes(Substring(token, 1, Len(token) - 1), CharAt(lower, pos))
         THEN pos + 1 ELSE -1
    ELSE IF pos + Len(token) <= Len(lower) /\ SubSeq(lower, pos + 1, pos + Len(token)) = token
         THEN pos + Len(token) ELSE -1

RECURSIVE PhraseEnd(_, _, _, _)
\* pieces k.. of new RegExp(pattern, 'is') matched at pos, \s+ between pieces
PhraseEnd(lower, pos, tokens, k) ==
    With(TokenEnd(lower, pos, tokens[k]), LAMBDA e :
        IF e = -1 THEN -1
        ELSE IF k = Len(tokens) THEN e
        ELSE With(SkipSpaces(lower, e), LAMBDA n :
                IF n = e THEN -1 ELSE PhraseEnd(lower, n, tokens, k + 1)))

RECURSIVE LoweredTokens(_, _)
\* the pieces of keywords k.. of a list, in lower case
LoweredTokens(keywords, k) ==
    IF k > Len(keywords) THEN <<>>
    ELSE <<Tokens(ToLowerCase(keywords[k]))>> \o LoweredTokens(keywords, k + 1)

KeywordPieces ==
    <<LoweredTokens(SponsorsKeywords, 1), LoweredTokens(AuditorsKeywords, 1),
      LoweredTokens(IndustryConsultantsKeywords, 1),
      LoweredTokens(LegalAdvisersToCompanyKeywords, 1),
      LoweredTokens(LegalAdvisersToSponsorsKeywords, 1)>>

\* the first pieces of all keywords
HeadWords ==
    UNION {{KeywordPieces[t][k][1] : k \in 1..Len(KeywordPieces[t])} :
              t \in 1..Len(KeywordPieces)}

\* every position of the lower-cased text where a keyword's first piece occurs
HeadHits(lower) ==
    {<<w, {p \in 0..(Len(lower) - Len(w)) : SubSeq(lower, p + 1, p + Len(w)) = w}>> :
        w \in HeadWords}

NotFound == [found |-> FALSE, matchIndex |-> -1, matchLength |-> 0]

\* lines 887-908: found, matchIndex and matchLength for one keyword, given its
\* lower-case pieces, directorsText.toLowerCase() and the positions of its first
\* piece (a match can only start there)
KeywordMatch(lower, heads, keyword, tokens) ==
    With((CHOOSE h \in heads : h[1] = tokens[1])[2], LAMBDA starts :
        IF Includes(keyword, " ")
        THEN With({p \in starts : PhraseEnd(lower, p, tokens, 1) # -1}, LAMBDA ps :
                IF ps = {} THEN NotFound
                ELSE With(SetMin(ps), LAMBDA p :
                        [found |-> TRUE, matchIndex |-> p,
                         matchLength |-> PhraseEnd(lower, p, tokens, 1) - p]))
        ELSE IF starts = {} THEN NotFound
        ELSE [found |-> TRUE, matchIndex |-> SetMin(starts), matchLength |-> Len(keyword)])

\* the end of the window counted from the match's start, not from its end
ChunkWithoutMatchLength(directorsText, matchIndex, matchLength) ==
    With(<<Max2(0, matchIndex - ChunkBefore),
           Min2(Len(directorsText), matchIndex + ChunkAfter)>>, LAMBDA cut :
        With(Substring(directorsText, cut[1], cut[2]), LAMBDA piece : Trim(piece)))

\* lines 911-913: the chunk cut around a match
ChunkAround(directorsText, matchIndex, matchLength) ==
    With(<<Max2(0, matchIndex - ChunkBefore),
           Min2(Len(directorsText), matchIndex + matchLength + ChunkAfter)>>, LAMBDA cut :
        With(Substring(directorsText, cut[1], cut[2]), LAMBDA piece : Trim(piece)))

\* type.keywords.forEach, lines 886-919: one entry per keyword that is found,
\* in the order of the keywords, with the matchIndex and matchLength it was
\* cut from
MatchesOf(directorsText, lower, heads, keywords, pieces) ==
    With({<<k, KeywordMatch(lower, heads, keywords[k], pieces[k])>> : k \in 1..Len(keywords)},
         LAMBDA tried :
    With({t \in tried : t[2].found}, LAMBDA hits :
        [i \in 1..Cardinality(hits) |->
            With(CHOOSE t \in hits : Cardinality({u \in hits : u[1] < t[1]}) = i - 1,
                 LAMBDA t :
                    [keyword |-> keywords[t[1]], matchIndex |-> t[2].matchIndex,
                     matchLength |-> t[2].matchLength,
                     chunk |-> ChunkAround(directorsText, t[2].matchIndex,
                                           t[2].matchLength)])]))

\* the matches of the t-th professional type
TypeMatches(directorsText, lower, heads, t) ==
    With(<<professionalTypes[t].keywords, KeywordPieces[t]>>, LAMBDA kp :
        MatchesOf(directorsText, lower, heads, kp[1], kp[2]))

\* professionalTypes.forEach, lines 883-923: the matches of all five types
ProfessionalMatches(directorsText) ==
    With(ToLowerCase(directorsText), LAMBDA lower :
    With(HeadHits(lower), LAMBDA heads :
        <<TypeMatches(directorsText, lower, heads, 1),
          TypeMatches(directorsText, lower, heads, 2),
          TypeMatches(directorsText, lower, heads, 3),
          TypeMatches(directorsText, lower, heads, 4),
          TypeMatches(directorsText, lower, heads, 5)>>))

\* extractedChunks.push({keyword, chunk})
ExtractedChunks(ms) == [i \in 1..Len(ms) |-> [keyword |-> ms[i].keyword, chunk |-> ms[i].chunk]]

\* chunks[type.key + 'Chunk'] = extractedChunks, for the matches ms of the types
ChunksOf(ms) ==
    [sponsorsChunk |-> ExtractedChunks(ms[1]),
     auditorsChunk |-> ExtractedChunks(ms[2]),
     industryConsultantsChunk |-> ExtractedChunks(ms[3]),
     legalAdvisersToCompanyChunk |-> ExtractedChunks(ms[4]),
     legalAdvisersToSponsorsChunk |-> ExtractedChunks(ms[5])]

\* an empty text answered with the {} of the catch block
EmptyObjectForNoText(directorsText) ==
    IF directorsText = "" THEN <<>>
    ELSE With(ProfessionalMatches(directorsText), LAMBDA ms : ChunksOf(ms))

extractProfessionalChunks(directorsText) ==
    With(ProfessionalMatches(directorsText), LAMBDA ms : ChunksOf(ms))

(***************************************************************************)
(* extractPageText (extractor.js 548-567)                                  *)
(***************************************************************************)
numPages == Len(doc)

\* pdfDoc.getPage(pageNum) rejects a page number outside 1..numPages
ValidPage(pageNum) == pageNum \in 1..numPages

\* a document whose pages can be read once: a page the accessor has delivered
\* before reads as '' when it is fetched again
extractPageTextReadOnce(cache, pageNum, ok) ==
    IF pageNum \in DOMAIN cache
    THEN [threw |-> FALSE, text |-> cache[pageNum], cache |-> cache]
    ELSE IF ok /\ returned[pageNum] = {}
    THEN [threw |-> FALSE, text |-> doc[pageNum],
          cache |-> [n \in DOMAIN cache \cup {pageNum} |->
                        IF n = pageNum THEN doc[pageNum] ELSE cache[n]]]
    ELSE [threw |-> FALSE, text |-> "", cache |-> cache]

\* One call with the given cache; ok says whether the accessor (getPage and
\* getTextContent) succeeds when it is called.  The page text is the items'
\* strings joined by blanks, which is what doc holds.  The catch block logs
\* and returns '', so the call never throws.
extractPageText(cache, pageNum, ok) ==
    IF pageNum \in DOMAIN cache
    THEN [threw |-> FALSE, text |-> cache[pageNum], cache |-> cache]
    ELSE IF ok
    THEN [threw |-> FALSE, text |-> doc[pageNum],
          cache |-> [n \in DOMAIN cache \cup {pageNum} |->
                        IF n = pageNum THEN doc[pageNum] ELSE cache[n]]]
    ELSE [threw |-> FALSE, text |-> "", cache |-> cache]

(***************************************************************************)
(* The async operations.  The frame of the operation in progress is at an  *)
(* awaited extractPageText(pageNum) (pc names the loop that awaits), at    *)
(* the end of the operation (pc = "done"), or at a point of synchronous    *)
(* code (the other values of pc), from which Settle runs it on to the next *)
(* await.                                                                  *)
(***************************************************************************)
CaymanKeywords == <<"Directors and Parties Involved", "DIRECTORS AND PARTIES INVOLVED">>

NonCaymanKeywords ==
    <<"Directors, Supervisors and Parties Involved",
      "DIRECTORS, SUPERVISORS AND PARTIES INVOLVED">>

SummaryKeywords == <<"SUMMARY", "Summary">>

SummarySearchPages == 30

EndSearchPages == 20

DefaultEndSpan == 10

FailureEndSpan == 5

BlankRun ==
    [op |-> "none", pc |-> "idle", pageNum |-> 0, caller |-> "none",
     firstPageText |-> "", companyType |-> "", weAreResult |-> Null,
     summarySection |-> Null, summaryText |-> "",
     searchKeywords |-> <<>>, foundOccurrences |-> <<>>, fallback |-> FALSE,
     startPage |-> 0, chapterTitle |-> "", endPage |-> 0, requested |-> {},
     directorsSection |-> Null, directorPages |-> <<>>, directorsText |-> "",
     chapterText |-> "", outcome |-> "none", result |-> Null]

\* the frame is at an awaited extractPageText
AwaitPcs ==
    {"firstPage", "weAre", "summary", "endPage", "summaryText", "directors",
     "directorsFallback", "directorsText"}

NoStatement == [text |-> "", location |-> Null]

\* extractWeAreStatement, loop head (lines 338, 359-363)
WeAreLoop(r) ==
    IF r.pageNum > numPages
    THEN [r EXCEPT !.weAreResult = NoStatement, !.pc = "summaryLoop", !.pageNum = 1]
    ELSE [r EXCEPT !.pc = "weAre"]

\* the search carried on to the last page of the document
SummaryLoopWholeDocument(r) ==
    IF r.pageNum > numPages
    THEN [r EXCEPT !.summarySection = Null, !.pc = "summaryReturned"]
    ELSE [r EXCEPT !.pc = "summary"]

\* findSummarySection, loop head (lines 740-742, 761-762)
SummaryLoop(r) ==
    IF r.pageNum > Min2(SummarySearchPages, numPages)
    THEN [r EXCEPT !.summarySection = Null, !.pc = "summaryReturned"]
    ELSE [r EXCEPT !.pc = "summary"]

\* findSummarySection has returned r.summarySection: lines 243-251
SummaryReturned(r) ==
    IF r.op = "findSummarySection"
    THEN [r EXCEPT !.pc = "done", !.outcome = "returned", !.result = r.summarySection]
    ELSE IF r.summarySection # Null
    THEN [r EXCEPT !.chapterText = "", !.pageNum = r.summarySection.startPage,
                   !.pc = "summaryTextLoop"]
    ELSE [r EXCEPT !.summaryText = r.weAreResult.text, !.pc = "findDirectors"]

\* the statement search taken up again once the summary text is complete
SummaryTextThenStatement(r) ==
    IF r.pageNum > r.summarySection.endPage
    THEN [r EXCEPT !.summaryText = r.chapterText, !.pageNum = 1, !.pc = "weAreLoop"]
    ELSE [r EXCEPT !.pc = "summaryText"]

\* extractChapterText for the summary, loop head (lines 580, 585-586)
SummaryTextLoop(r) ==
    IF r.pageNum > r.summarySection.endPage
    THEN [r EXCEPT !.summaryText = r.chapterText, !.pc = "findDirectors"]
    ELSE [r EXCEPT !.pc = "summaryText"]

\* findDirectorsSection(r.companyType) is entered: lines 429-433
FindDirectors(r) ==
    [r EXCEPT !.searchKeywords = IF r.companyType = "cayman" THEN CaymanKeywords
                                 ELSE NonCaymanKeywords,
              !.foundOccurrences = <<>>, !.fallback = FALSE,
              !.pageNum = 1, !.pc = "directorsLoop"]

\* the switch made for the non-cayman classification alone
FallbackForNonCaymanOnly(companyType, found) ==
    companyType = "non-cayman" /\ Len(found) = 0

\* line 450: only a company that is not cayman switches to the other keywords
UsesFallback(companyType, found) == companyType # "cayman" /\ Len(found) = 0

\* the scan left as soon as a page has produced an occurrence
DirectorsLoopUntilFirstHit(r) ==
    IF r.pageNum > numPages \/ Len(r.foundOccurrences) > 0
    THEN IF UsesFallback(r.companyType, r.foundOccurrences)
         THEN [r EXCEPT !.searchKeywords = CaymanKeywords, !.fallback = TRUE,
                        !.pageNum = 1, !.pc = "directorsFallbackLoop"]
         ELSE [r EXCEPT !.pc = "select"]
    ELSE [r EXCEPT !.pc = "directors"]

\* the scan of lines 436-447 at its loop head, then lines 450-454
DirectorsLoop(r) ==
    IF r.pageNum > numPages
    THEN IF UsesFallback(r.companyType, r.foundOccurrences)
         THEN [r EXCEPT !.searchKeywords = CaymanKeywords, !.fallback = TRUE,
                        !.pageNum = 1, !.pc = "directorsFallbackLoop"]
         ELSE [r EXCEPT !.pc = "select"]
    ELSE [r EXCEPT !.pc = "directors"]

\* a compatibility scan that starts over while it has found nothing
DirectorsFallbackRescan(r) ==
    IF r.pageNum > numPages
    THEN IF Len(r.foundOccurrences) = 0 /\ numPages > 0
         THEN [r EXCEPT !.pageNum = 1, !.pc = "directorsFallback"]
         ELSE [r EXCEPT !.pc = "select"]
    ELSE [r EXCEPT !.pc = "directorsFallback"]

\* the compatibility scan of lines 455-466 at its loop head
DirectorsFallbackLoop(r) ==
    IF r.pageNum > numPages THEN [r EXCEPT !.pc = "select"]
    ELSE [r EXCEPT !.pc = "directorsFallback"]

RECURSIVE InsertBeforeEqualPage(_, _)
\* an insertion that puts an occurrence before those of the same page
InsertBeforeEqualPage(sorted, occ) ==
    IF sorted = <<>> THEN <<occ>>
    ELSE IF sorted[Len(sorted)].page < occ.page THEN Append(sorted, occ)
    ELSE With(SubSeq(sorted, 1, Len(sorted) - 1), LAMBDA front :
            Append(InsertBeforeEqualPage(front, occ), sorted[Len(sorted)]))

RECURSIVE InsertByPage(_, _)
InsertByPage(sorted, occ) ==
    IF sorted = <<>> THEN <<occ>>
    ELSE IF sorted[Len(sorted)].page <= occ.page THEN Append(sorted, occ)
    ELSE With(SubSeq(sorted, 1, Len(sorted) - 1), LAMBDA front :
            Append(InsertByPage(front, occ), sorted[Len(sorted)]))

RECURSIVE SortByPage(_)
\* foundOccurrences.sort((a, b) => a.page - b.page): stable, by page
SortByPage(occs) ==
    IF occs = <<>> THEN <<>>
    ELSE With(SubSeq(occs, 1, Len(occs) - 1), LAMBDA front :
         With(SortByPage(front), LAMBDA sorted : InsertByPage(sorted, occs[Len(occs)])))

\* the threshold of ten taken inclusively
ValidIndexFromTen(n) ==
    LET validIdx == IF n >= 10 THEN 3 ELSE 2
    IN  IF n > validIdx THEN validIdx ELSE n - 1

\* lines 473-480: the index of the occurrence taken as the chapter start
ValidIndex(n) ==
    LET validIdx == IF n > 10 THEN 3 ELSE 2
    IN  IF n > validIdx THEN validIdx ELSE n - 1

\* a call of findChapterEndPage(startPage, chapterTitle) by caller
CallEndPage(r, caller, startPage, chapterTitle) ==
    [r EXCEPT !.caller = caller, !.startPage = startPage, !.chapterTitle = chapterTitle,
              !.requested = {}, !.pageNum = startPage + 1, !.pc = "endPageLoop"]

\* lines 469-502: the selection among the collected occurrences
SelectOccurrence(r) ==
    IF Len(r.foundOccurrences) > 0
    THEN With(SortByPage(r.foundOccurrences), LAMBDA sorted :
         With(sorted[ValidIndex(Len(sorted)) + 1], LAMBDA occ :
            CallEndPage([r EXCEPT !.foundOccurrences = sorted],
                        "directors", occ.page, occ.keyword)))
    ELSE [r EXCEPT !.directorsSection = Null, !.pc = "directorsReturned"]

\* the loop bounded by the document alone
EndPageLoopToLastPage(r) ==
    IF r.pageNum > numPages
    THEN [r EXCEPT !.endPage = Min2(r.startPage + DefaultEndSpan, numPages),
                   !.pc = "endPageReturned"]
    ELSE [r EXCEPT !.pc = "endPage"]

\* findChapterEndPage, loop head (lines 520, 534-536)
EndPageLoop(r) ==
    IF r.pageNum > Min2(r.startPage + EndSearchPages, numPages)
    THEN [r EXCEPT !.endPage = Min2(r.startPage + DefaultEndSpan, numPages),
                   !.pc = "endPageReturned"]
    ELSE [r EXCEPT !.pc = "endPage"]

\* findChapterEndPage has returned r.endPage to the operation that called it
\* (lines 752-758 and 482-498)
EndPageReturned(r) ==
    LET section == [startPage |-> r.startPage, endPage |-> r.endPage,
                    title |-> r.chapterTitle]
    IN  IF r.caller = "summary"
        THEN [r EXCEPT !.summarySection = section, !.pc = "summaryReturned"]
        ELSE IF r.caller = "directors"
        THEN [r EXCEPT !.directorsSection = section, !.pc = "directorsReturned"]
        ELSE [r EXCEPT !.pc = "done", !.outcome = "returned", !.result = r.endPage]

\* findDirectorsSection has returned r.directorsSection: lines 254-263
DirectorsReturned(r) ==
    IF r.op = "findDirectorsSection"
    THEN [r EXCEPT !.pc = "done", !.outcome = "returned", !.result = r.directorsSection]
    ELSE IF r.directorsSection # Null
    THEN [r EXCEPT !.directorPages = <<r.directorsSection.startPage,
                                       r.directorsSection.endPage>>,
                   !.chapterText = "", !.pageNum = r.directorsSection.startPage,
                   !.pc = "directorsTextLoop"]
    ELSE [r EXCEPT !.pc = "finish"]

\* extractChapterText for the directors chapter, loop head (lines 580, 585-586)
DirectorsTextLoop(r) ==
    IF r.pageNum > r.directorsSection.endPage
    THEN [r EXCEPT !.directorsText = r.chapterText, !.pc = "finish"]
    ELSE [r EXCEPT !.pc = "directorsText"]

FinishWithoutMetadata(r) ==
    [r EXCEPT !.pc = "done", !.outcome = "returned",
              !.result = [firstPageText |-> r.firstPageText,
                          companyType |-> r.companyType,
                          weAreText |-> r.weAreResult.text,
                          summaryText |-> r.summaryText,
                          directorsText |-> r.directorsText,
                          professionalChunks |->
                              With(r.directorsText, LAMBDA directorsText :
                                  extractProfessionalChunks(directorsText))]]

\* lines 265-291: the bundle is assembled and returned
Finish(r) ==
    [r EXCEPT !.pc = "done", !.outcome = "returned",
              !.result = [firstPageText |-> r.firstPageText,
                          companyType |-> r.companyType,
                          weAreText |-> r.weAreResult.text,
                          summaryText |-> r.summaryText,
                          directorsText |-> r.directorsText,
                          metadata |-> [directorPages |-> r.directorPages,
                                        weAreLocation |-> r.weAreResult.location],
                          professionalChunks |->
                              With(r.directorsText, LAMBDA directorsText :
                                  extractProfessionalChunks(directorsText))]]

\* lines 292-295: the catch block of extractAllRequiredSections rethrows
Abort(r) == [r EXCEPT !.pc = "done", !.outcome = "threw"]

\* the synchronous code at r.pc
SyncStep(r) ==
    CASE r.pc = "weAreLoop" -> WeAreLoop(r)
      [] r.pc = "summaryLoop" -> SummaryLoop(r)
      [] r.pc = "summaryReturned" -> SummaryReturned(r)
      [] r.pc = "summaryTextLoop" -> SummaryTextLoop(r)
      [] r.pc = "findDirectors" -> FindDirectors(r)
      [] r.pc = "directorsLoop" -> DirectorsLoop(r)
      [] r.pc = "directorsFallbackLoop" -> DirectorsFallbackLoop(r)
      [] r.pc = "select" -> SelectOccurrence(r)
      [] r.pc = "endPageLoop" -> EndPageLoop(r)
      [] r.pc = "endPageReturned" -> EndPageReturned(r)
      [] r.pc = "directorsReturned" -> DirectorsReturned(r)
      [] r.pc = "directorsTextLoop" -> DirectorsTextLoop(r)
      [] r.pc = "finish" -> Finish(r)
      [] r.pc = "abort" -> Abort(r)

RECURSIVE Settle(_)
\* the operation runs on, without interleaving, until it awaits or ends
Settle(frame) ==
    With(frame, LAMBDA r :
        IF r.pc \in AwaitPcs \cup {"done"} THEN r ELSE Settle(SyncStep(r)))

\* lines 341-356: the result of extractWeAreStatement for a match on page pageNum
StatementFound(pageText, pageNum, weAreMatch) ==
    [text |-> extractParagraphContaining(pageText, weAreMatch),
     location |-> [page |-> pageNum, sentence |-> weAreMatch]]

RECURSIVE PushMatches(_, _, _, _, _)
\* lines 438-446: one occurrence per keyword the page text includes
PushMatches(found, pageText, pageNum, keywords, k) ==
    IF k > Len(keywords) THEN found
    ELSE With(IF Includes(pageText, keywords[k])
              THEN Append(found, [page |-> pageNum, keyword |-> keywords[k]])
              ELSE found,
              LAMBDA pushed : PushMatches(pushed, pageText, pageNum, keywords, k + 1))

(***************************************************************************)
(* Actions: one awaited extractPageText(run.pageNum) each                  *)
(***************************************************************************)
\* what the accessor can do when extractPageText(run.pageNum) reaches it: a
\* cached page does not reach it, a page outside the document is rejected, and
\* a page of the document is delivered unless a fault is injected
AccessorOutcomes ==
    IF run.pageNum \in DOMAIN pageTextCache THEN {TRUE}
    ELSE IF ~ValidPage(run.pageNum) THEN {FALSE}
    ELSE IF faults > 0 THEN BOOLEAN
    ELSE {TRUE}

\* the call's effect on the extractor and on the accessor
PageFetch(ok, res) ==
    LET n == run.pageNum
        hit == n \in DOMAIN pageTextCache
    IN  /\ pageTextCache' = res.cache
        /\ accessorCalls' = IF hit THEN accessorCalls
                            ELSE [accessorCalls EXCEPT ![n] = @ + 1]
        /\ faults' = IF ~hit /\ ValidPage(n) /\ ~ok THEN faults - 1 ELSE faults
        /\ returned' = IF res.threw THEN returned
                       ELSE [returned EXCEPT ![n] = @ \cup {res.text}]
        /\ lastCall' = [pageNum |-> n,
                        accessor |-> IF hit THEN "not called"
                                     ELSE IF ok THEN "delivered" ELSE "failed",
                        threw |-> res.threw, text |-> res.text]

\* extractAllRequiredSections is called (lines 218-231); pdfDoc is open
StartExtractAll ==
    /\ run.pc = "idle"
    /\ run' = [BlankRun EXCEPT !.op = "extractAllRequiredSections",
                               !.pc = "firstPage", !.pageNum = 1]
    /\ UNCHANGED <<doc, pageTextCache, accessorCalls, faults, returned, lastCall, para, chunk, session,
                   popup, message, parse>>

\* findDirectorsSection(companyType) is called on its own
StartFindDirectors ==
    /\ run.pc = "idle"
    /\ \E companyType \in {"cayman", "non-cayman", "unknown"} :
          run' = Settle([BlankRun EXCEPT !.op = "findDirectorsSection",
                                         !.companyType = companyType,
                                         !.pc = "findDirectors"])
    /\ UNCHANGED <<doc, pageTextCache, accessorCalls, faults, returned, lastCall, para, chunk, session,
                   popup, message, parse>>

\* findChapterEndPage(startPage, chapterTitle) is called on its own, for a page
\* of the document and a title the callers pass
StartFindChapterEndPage ==
    /\ run.pc = "idle"
    /\ \E startPage \in 1..numPages :
       \E chapterTitle \in {SummaryKeywords[1], CaymanKeywords[2]} :
          run' = Settle(CallEndPage([BlankRun EXCEPT !.op = "findChapterEndPage"],
                                    "none", startPage, chapterTitle))
    /\ UNCHANGED <<doc, pageTextCache, accessorCalls, faults, returned, lastCall, para, chunk, session,
                   popup, message, parse>>

\* findSummarySection() is called on its own
StartFindSummary ==
    /\ run.pc = "idle"
    /\ run' = Settle([BlankRun EXCEPT !.op = "findSummarySection",
                                      !.pageNum = 1, !.pc = "summaryLoop"])
    /\ UNCHANGED <<doc, pageTextCache, accessorCalls, faults, returned, lastCall, para, chunk, session,
                   popup, message, parse>>

\* lines 231-239
FirstPageStep ==
    /\ run.pc = "firstPage"
    /\ \E ok \in AccessorOutcomes :
       \E res \in {extractPageText(pageTextCache, run.pageNum, ok)} :
          /\ PageFetch(ok, res)
          /\ run' = Settle(IF res.threw THEN [run EXCEPT !.pc = "abort"]
                           ELSE [run EXCEPT !.firstPageText = res.text,
                                            !.companyType = detectCompanyType(res.text),
                                            !.pageNum = 1, !.pc = "weAreLoop"])
    /\ UNCHANGED <<doc, para, chunk, session,
                   popup, message, parse>>

\* one iteration of the loop of extractWeAreStatement (lines 338-357, 364-370)
WeAreStep ==
    /\ run.pc = "weAre"
    /\ \E ok \in AccessorOutcomes :
       \E res \in {extractPageText(pageTextCache, run.pageNum, ok)} :
       \E weAreMatch \in {WeAreMatch(res.text)} :
          /\ PageFetch(ok, res)
          /\ run' = Settle(IF res.threw
                           THEN [run EXCEPT !.weAreResult = NoStatement,
                                            !.pageNum = 1, !.pc = "summaryLoop"]
                           ELSE IF weAreMatch # NoMatch
                           THEN [run EXCEPT !.weAreResult =
                                               StatementFound(res.text, run.pageNum,
                                                              weAreMatch),
                                            !.pageNum = 1, !.pc = "summaryLoop"]
                           ELSE [run EXCEPT !.pageNum = @ + 1, !.pc = "weAreLoop"])
    /\ UNCHANGED <<doc, para, chunk, session,
                   popup, message, parse>>

\* one iteration of the loop of findSummarySection (lines 742-759)
SummaryStep ==
    /\ run.pc = "summary"
    /\ \E ok \in AccessorOutcomes :
       \E res \in {extractPageText(pageTextCache, run.pageNum, ok)} :
       \E hits \in {{k \in 1..Len(SummaryKeywords) : Includes(res.text, SummaryKeywords[k])}} :
          /\ PageFetch(ok, res)
          /\ run' = Settle(IF res.threw
                           THEN [run EXCEPT !.summarySection = Null,
                                            !.pc = "summaryReturned"]
                           ELSE IF hits # {}
                           THEN CallEndPage(run, "summary", run.pageNum,
                                            SummaryKeywords[SetMin(hits)])
                           ELSE [run EXCEPT !.pageNum = @ + 1, !.pc = "summaryLoop"])
    /\ UNCHANGED <<doc, para, chunk, session,
                   popup, message, parse>>

\* one iteration of the loop of findChapterEndPage (lines 520-531, 537-540)
EndPageStep ==
    /\ run.pc = "endPage"
    /\ \E ok \in AccessorOutcomes :
       \E res \in {extractPageText(pageTextCache, run.pageNum, ok)} :
       \E matches \in {HeadingMatch(res.text)} :
       \E r \in {[run EXCEPT !.requested = @ \cup {run.pageNum}]} :
          /\ PageFetch(ok, res)
          /\ run' = Settle(IF res.threw
                           THEN [r EXCEPT !.endPage = Min2(r.startPage + FailureEndSpan,
                                                           numPages),
                                          !.pc = "endPageReturned"]
                           ELSE IF matches # NoMatch /\ Trim(matches) # r.chapterTitle
                           THEN [r EXCEPT !.endPage = r.pageNum - 1,
                                          !.pc = "endPageReturned"]
                           ELSE [r EXCEPT !.pageNum = @ + 1, !.pc = "endPageLoop"])
    /\ UNCHANGED <<doc, para, chunk, session,
                   popup, message, parse>>

\* one iteration of extractChapterText for the summary (lines 580-583)
SummaryTextStep ==
    /\ run.pc = "summaryText"
    /\ \E ok \in AccessorOutcomes :
       \E res \in {extractPageText(pageTextCache, run.pageNum, ok)} :
          /\ PageFetch(ok, res)
          /\ run' = Settle(IF res.threw THEN [run EXCEPT !.pc = "abort"]
                           ELSE [run EXCEPT !.chapterText = @ \o res.text \o "\n",
                                            !.pageNum = @ + 1, !.pc = "summaryTextLoop"])
    /\ UNCHANGED <<doc, para, chunk, session,
                   popup, message, parse>>

\* one iteration of the first loop of findDirectorsSection (lines 436-447, 503-506)
DirectorsStep ==
    /\ run.pc = "directors"
    /\ \E ok \in AccessorOutcomes :
       \E res \in {extractPageText(pageTextCache, run.pageNum, ok)} :
          /\ PageFetch(ok, res)
          /\ run' = Settle(IF res.threw
                           THEN [run EXCEPT !.directorsSection = Null,
                                            !.pc = "directorsReturned"]
                           ELSE [run EXCEPT !.foundOccurrences =
                                               PushMatches(@, res.text, run.pageNum,
                                                           run.searchKeywords, 1),
                                            !.pageNum = @ + 1, !.pc = "directorsLoop"])
    /\ UNCHANGED <<doc, para, chunk, session,
                   popup, message, parse>>

\* one iteration of the compatibility loop (lines 455-466, 503-506)
DirectorsFallbackStep ==
    /\ run.pc = "directorsFallback"
    /\ \E ok \in AccessorOutcomes :
       \E res \in {extractPageText(pageTextCache, run.pageNum, ok)} :
          /\ PageFetch(ok, res)
          /\ run' = Settle(IF res.threw
                           THEN [run EXCEPT !.directorsSection = Null,
                                            !.pc = "directorsReturned"]
                           ELSE [run EXCEPT !.foundOccurrences =
                                               PushMatches(@, res.text, run.pageNum,
                                                           run.searchKeywords, 1),
                                            !.pageNum = @ + 1,
                                            !.pc = "directorsFallbackLoop"])
    /\ UNCHANGED <<doc, para, chunk, session,
                   popup, message, parse>>

\* one iteration of extractChapterText for the directors chapter (lines 580-583)
DirectorsTextStep ==
    /\ run.pc = "directorsText"
    /\ \E ok \in AccessorOutcomes :
       \E res \in {extractPageText(pageTextCache, run.pageNum, ok)} :
          /\ PageFetch(ok, res)
          /\ run' = Settle(IF res.threw THEN [run EXCEPT !.pc = "abort"]
                           ELSE [run EXCEPT !.chapterText = @ \o res.text \o "\n",
                                            !.pageNum = @ + 1, !.pc = "directorsTextLoop"])
    /\ UNCHANGED <<doc, para, chunk, session,
                   popup, message, parse>>

(***************************************************************************)
(* Specification of one run of extractAllRequiredSections                  *)
(***************************************************************************)
CoverCayman == "Incorporated in the Cayman Islands"

StatementPage == "Intro\n\nWe are a bank. More\n\nEnd"

SummaryPage == "SUMMARY\nWe are a lender."

DirectorsPage ==
    "DIRECTORS AND PARTIES INVOLVED\nDirectors and Parties Involved Sole Sponsor X"

SupervisorsPage == "Directors, Supervisors and Parties Involved\nAuditor Y"

BusinessPage == "BUSINESS\nLegal Advisers to the Company"

PageLib == {CoverCayman, StatementPage, SummaryPage, DirectorsPage, SupervisorsPage,
            BusinessPage}

DocsOver(lib, maxLen) == UNION {[1..n -> lib] : n \in 0..maxLen}

NoCall == [pageNum |-> 0, accessor |-> "not called", threw |-> FALSE, text |-> ""]

\* a fresh extractor (constructor, lines 28-35) on the opened document d
FreshExtractor(d) ==
    /\ doc = d
    /\ pageTextCache = <<>>
    /\ accessorCalls = [n \in 1..Max2(1, Len(d)) |-> 0]
    /\ returned = [n \in 1..Max2(1, Len(d)) |-> {}]
    /\ lastCall = NoCall
    /\ run = BlankRun
    /\ para = IdlePara
    /\ chunk = IdleChunk
    /\ session = IdleSession
    /\ popup = Idle
    /\ message = Idle
    /\ parse = Idle

Init ==
    /\ \E d \in DocsOver(PageLib, MaxPages) : FreshExtractor(d)
    /\ faults = MaxFailures

Next ==
    \/ StartExtractAll
    \/ FirstPageStep
    \/ WeAreStep
    \/ SummaryStep
    \/ EndPageStep
    \/ SummaryTextStep
    \/ DirectorsStep
    \/ DirectorsFallbackStep
    \/ DirectorsTextStep

Spec == Init /\ [][Next]_vars

\* the steps that resume a run: each is the return or the failure of one
\* awaited accessor call
Resumptions ==
    \/ FirstPageStep
    \/ WeAreStep
    \/ SummaryStep
    \/ EndPageStep
    \/ SummaryTextStep
    \/ DirectorsStep
    \/ DirectorsFallbackStep
    \/ DirectorsTextStep

\* the runs in which every awaited accessor call eventually returns or fails
InitLive ==
    /\ \E d \in DocsOver(PageLib, MaxLivePages) : FreshExtractor(d)
    /\ faults = MaxFailures

SpecLive == InitLive /\ [][Next]_vars /\ WF_vars(Resumptions)

(***************************************************************************)
(* Specification of one call of findDirectorsSection                       *)
(***************************************************************************)
\* the pages of a document that names one family of chapter titles: a page
\* without a title, with one spelling, or with both spellings
TitlePages(keywords) == {"", keywords[1], keywords[1] \o "\n" \o keywords[2]}

DirectorsDocs ==
    DocsOver(TitlePages(CaymanKeywords), MaxDirectorsPages)
        \cup DocsOver(TitlePages(NonCaymanKeywords), MaxDirectorsPages)

InitDirectors ==
    /\ \E d \in DirectorsDocs : FreshExtractor(d)
    /\ faults = 0

NextDirectors ==
    \/ StartFindDirectors
    \/ DirectorsStep
    \/ DirectorsFallbackStep
    \/ EndPageStep

SpecDirectors == InitDirectors /\ [][NextDirectors]_vars

(***************************************************************************)
(* Specification of one call of findChapterEndPage                         *)
(***************************************************************************)
\* a page that repeats the Summary title and then opens another chapter
RunningTitlePage == "SUMMARY\nOur summary\nBUSINESS"

\* documents of n pages without text, except for at most one page that
\* carries a heading
HeadingDocs(n) ==
    {[p \in 1..n |-> ""]}
        \cup {[p \in 1..n |-> IF p = q THEN h ELSE ""] :
                 q \in 1..n,
                 h \in {"SUMMARY", "BUSINESS\nOur business", RunningTitlePage}}

InitEndPage ==
    /\ \E n \in 1..MaxEndPages : \E d \in HeadingDocs(n) : FreshExtractor(d)
    /\ faults = 0

NextEndPage ==
    \/ StartFindChapterEndPage
    \/ EndPageStep

SpecEndPage == InitEndPage /\ [][NextEndPage]_vars

(***************************************************************************)
(* Specification of one application of extractParagraphContaining          *)
(***************************************************************************)
ParaAlphabet == {"a", " ", "\n"}

RECURSIVE TextsOfLen(_)
TextsOfLen(n) ==
    IF n = 0 THEN {""}
    ELSE {t \o c : t \in TextsOfLen(n - 1), c \in ParaAlphabet}

ParaTexts == UNION {TextsOfLen(n) : n \in 1..MaxTextLen}

\* the non-empty substrings of t: the anchor sentences that occur in it
SentencesOf(t) ==
    {Substring(t, i, j) : i \in 0..(Len(t) - 1), j \in 1..Len(t)} \ {""}

\* no document is open
NoExtractor ==
    /\ doc = <<>>
    /\ pageTextCache = <<>>
    /\ accessorCalls = <<>>
    /\ faults = 0
    /\ returned = <<>>
    /\ lastCall = NoCall
    /\ run = BlankRun
    /\ session = IdleSession
    /\ popup = Idle
    /\ message = Idle
    /\ parse = Idle

InitPara ==
    /\ NoExtractor
    /\ chunk = IdleChunk
    /\ \E t \in ParaTexts : \E s \in SentencesOf(t) :
          para = [pc |-> "call", pageText |-> t, sentence |-> s, result |-> ""]

ApplyParagraph ==
    /\ para.pc = "call"
    /\ \E result \in {extractParagraphContaining(para.pageText, para.sentence)} :
          para' = [para EXCEPT !.pc = "done", !.result = result]
    /\ UNCHANGED <<doc, pageTextCache, accessorCalls, faults, returned, lastCall, run, chunk, session,
                   popup, message, parse>>

NextPara == ApplyParagraph

SpecPara == InitPara /\ [][NextPara]_vars

(***************************************************************************)
(* Specification of one application of extractProfessionalChunks           *)
(***************************************************************************)
FillerUnit == "of the Board, 1 Main Street\nHong Kong "

RECURSIVE Filler(_)
\* n characters of running text that names no professional party
Filler(n) ==
    IF n <= 0 THEN ""
    ELSE IF n <= Len(FillerUnit) THEN SubSeq(FillerUnit, 1, n)
    ELSE FillerUnit \o Filler(n - Len(FillerUnit))

\* how a party is named in the text
Mentions ==
    {"", "Sole Sponsor", "JOINT  \n sponsors", "auditor", "Reporting\nAccountants",
     "Industry Consultant", "Legal Advisers to our Company",
     "Legal advisors to the D"}

LeadLengths == {0, 1, ChunkBefore - 1, ChunkBefore, ChunkBefore + 1, MaxLead}

TailLengths == {0, 1, ChunkAfter - 1, ChunkAfter, ChunkAfter + 1, MaxTail}

InitChunks ==
    /\ NoExtractor
    /\ para = IdlePara
    /\ \E a \in LeadLengths : \E b \in TailLengths : \E k \in Mentions :
          chunk = [pc |-> "call", directorsText |-> Filler(a) \o k \o Filler(b),
                   matches |-> <<>>, result |-> Null]

ApplyChunks ==
    /\ chunk.pc = "call"
    /\ \E directorsText \in {chunk.directorsText} :
       \E ms \in {ProfessionalMatches(directorsText)} :
          chunk' = [chunk EXCEPT !.pc = "done", !.matches = ms, !.result = ChunksOf(ms)]
    /\ UNCHANGED <<doc, pageTextCache, accessorCalls, faults, returned, lastCall, run, para, session,
                   popup, message, parse>>

NextChunks == ApplyChunks

SpecChunks == InitChunks /\ [][NextChunks]_vars


(***************************************************************************)
(* Specification of one call of findChapterEndPage with accessor failures  *)
(***************************************************************************)
InitEndPageFaults ==
    /\ \E n \in 1..MaxFaultyPages : \E d \in HeadingDocs(n) : FreshExtractor(d)
    /\ faults = MaxFailures

SpecEndPageFaults == InitEndPageFaults /\ [][NextEndPage]_vars

(***************************************************************************)
(* Specification of the content script (content.js): initializeExtractor   *)
(* prepares the sections when the script is loaded, and one extractInfo    *)
(* message is handled by handleExtractInfo, both on the one extractor      *)
(* window.prospectusExtractor.  run is the frame of the handler whose      *)
(* await resolves next, session.other is the frame of the other handler.   *)
(***************************************************************************)
\* the pages of the documents at the location of the content script
SessionLib == {SummaryPage, DirectorsPage}

SessionDocs == DocsOver(SessionLib, MaxSessionPages)

Handlers == {"initializeExtractor", "handleExtractInfo"}

OtherHandler(h) ==
    IF h = "initializeExtractor" THEN "handleExtractInfo" ELSE "initializeExtractor"

\* the handler's call into the extractor has not ended
InProgress(r) == r.pc \notin {"idle", "done", "closed"}

\* the frame is inside extractPageText for a page the cache does not hold:
\* pdfDoc.getPage has been called for it and has not delivered
FetchOutstanding(r) ==
    r.pc \in AwaitPcs /\ r.pageNum \notin DOMAIN pageTextCache

\* content.js 153-157 and 10-37: the script is loaded on a PDF page,
\* initializeExtractor has created the extractor (line 26) and has called
\* extractAllRequiredSections, which awaits initializePDF (extractor.js 222-224)
InitSession ==
    /\ doc = <<>>
    /\ pageTextCache = <<>>
    /\ accessorCalls = [n \in 1..MaxSessionPages |-> 0]
    /\ returned = [n \in 1..MaxSessionPages |-> {}]
    /\ faults = 0
    /\ lastCall = NoCall
    /\ run = [BlankRun EXCEPT !.op = "extractAllRequiredSections",
                              !.pc = "initializePDF"]
    /\ para = IdlePara
    /\ chunk = IdleChunk
    /\ session = [pc |-> "loaded", active |-> "initializeExtractor",
                  other |-> BlankRun, isInitialized |-> FALSE, opened |-> 0,
                  hkexPreparedData |-> Null, response |-> Null]
    /\ popup = Idle
    /\ message = Idle
    /\ parse = Idle

\* content.js 71-73 and 86-100, extractor.js 118-131: an extractInfo message
\* arrives; the extractor exists, so handleExtractInfo calls
\* extractProspectusInfo, which initializes the extractor and awaits
\* initializePDF
ReceiveExtractInfo ==
    /\ session.pc = "loaded"
    /\ session.active = "initializeExtractor"
    /\ session.other.pc = "idle"
    /\ session' = [session EXCEPT
                      !.isInitialized = TRUE,
                      !.other = [BlankRun EXCEPT !.op = "extractAllRequiredSections",
                                                 !.pc = "initializePDF"]]
    /\ UNCHANGED <<doc, pageTextCache, accessorCalls, faults, returned, lastCall, run,
                   para, chunk,
                   popup, message, parse>>

\* the event loop resumes the other handler next
Resume ==
    /\ session.pc = "loaded"
    /\ InProgress(session.other) \/ session.other.pc = "done"
    /\ run' = session.other
    /\ session' = [session EXCEPT !.other = run,
                                  !.active = OtherHandler(session.active)]
    /\ UNCHANGED <<doc, pageTextCache, accessorCalls, faults, returned, lastCall,
                   para, chunk,
                   popup, message, parse>>

\* the documents loadingTask.promise can deliver: the document at the
\* location, which is another one only when no run of the other handler is
\* reading the document opened before
Loadable ==
    IF session.opened > 0 /\ InProgress(session.other) THEN {doc} ELSE SessionDocs

\* initializePDF resumes (extractor.js 204-211): the document is loaded and
\* replaces this.pdfDoc, or loading fails and the caller throws (lines
\* 225-227 and 132-134).  this.pageTextCache is left as it is.
InitializePDFStep ==
    /\ session.pc = "loaded"
    /\ run.pc = "initializePDF"
    /\ \/ /\ \E d \in Loadable : doc' = d
          /\ session' = [session EXCEPT !.opened = @ + 1]
          /\ run' = [run EXCEPT !.pc = "firstPage", !.pageNum = 1]
       \/ /\ run' = Settle([run EXCEPT !.pc = "abort"])
          /\ UNCHANGED <<doc, session>>
    /\ UNCHANGED <<pageTextCache, accessorCalls, faults, returned, lastCall, para, chunk,
                   popup, message, parse>>

\* initializeExtractor resumes after extractAllRequiredSections
\* (content.js 37-44)
PreparedStep ==
    /\ session.pc = "loaded"
    /\ session.active = "initializeExtractor"
    /\ run.pc = "done"
    /\ session' = [session EXCEPT !.hkexPreparedData = run.result]
    /\ run' = [run EXCEPT !.pc = "closed"]
    /\ UNCHANGED <<doc, pageTextCache, accessorCalls, faults, returned, lastCall,
                   para, chunk,
                   popup, message, parse>>

\* extractProspectusInfo resumes after extractAllRequiredSections and
\* handleExtractInfo answers the message (extractor.js 137-170,
\* content.js 100-107)
RespondStep ==
    /\ session.pc = "loaded"
    /\ session.active = "handleExtractInfo"
    /\ run.pc = "done"
    /\ session' = [session EXCEPT !.response = [success |-> run.outcome = "returned"]]
    /\ run' = [run EXCEPT !.pc = "closed"]
    /\ UNCHANGED <<doc, pageTextCache, accessorCalls, faults, returned, lastCall,
                   para, chunk,
                   popup, message, parse>>

NextSession ==
    \/ ReceiveExtractInfo
    \/ Resume
    \/ InitializePDFStep
    \/ PreparedStep
    \/ RespondStep
    \/ FirstPageStep
    \/ WeAreStep
    \/ SummaryStep
    \/ EndPageStep
    \/ SummaryTextStep
    \/ DirectorsStep
    \/ DirectorsFallbackStep
    \/ DirectorsTextStep

SpecSession == InitSession /\ [][NextSession]_vars

(***************************************************************************)
(* Specification of findDirectorsSection over documents whose pages spell  *)
(* the chapter title in different ways                                     *)
(***************************************************************************)
RECURSIVE Joined(_, _)
\* the tokens written one after the other with sep between them
Joined(tokens, sep) ==
    IF Len(tokens) = 1 THEN tokens[1]
    ELSE tokens[1] \o sep \o Joined(Tail(tokens), sep)

\* a title as listed, in lower case, wrapped at every blank, and with its
\* words run together
Spellings(keyword) ==
    {keyword, ToLowerCase(keyword), Joined(Tokens(keyword), "\n"),
     Joined(Tokens(keyword), "")}

SpelledPages == {""} \cup Spellings(CaymanKeywords[2])

InitHeadings ==
    /\ \E d \in DocsOver(SpelledPages, MaxHeadingPages) : FreshExtractor(d)
    /\ faults = 0

SpecHeadings == InitHeadings /\ [][NextDirectors]_vars

(***************************************************************************)
(* Specification of two runs of extractAllRequiredSections, each on a      *)
(* fresh extractor, over the same document.  run and pageTextCache are the *)
(* extractor whose await resolves next, session holds the other one.       *)
(***************************************************************************)
InitTwin ==
    /\ \E d \in DocsOver(PageLib, MaxTwinPages) :
          /\ doc = d
          /\ accessorCalls = [n \in 1..Max2(1, Len(d)) |-> 0]
          /\ returned = [n \in 1..Max2(1, Len(d)) |-> {}]
    /\ pageTextCache = <<>>
    /\ faults = 0
    /\ lastCall = NoCall
    /\ run = BlankRun
    /\ para = IdlePara
    /\ chunk = IdleChunk
    /\ session = [pc |-> "twin", other |-> BlankRun, cache |-> <<>>]
    /\ popup = Idle
    /\ message = Idle
    /\ parse = Idle

\* the event loop turns to the other extractor
Turn ==
    /\ session.pc = "twin"
    /\ run' = session.other
    /\ pageTextCache' = session.cache
    /\ session' = [session EXCEPT !.other = run, !.cache = pageTextCache]
    /\ UNCHANGED <<doc, accessorCalls, faults, returned, lastCall, para, chunk,
                   popup, message, parse>>

NextTwin ==
    \/ Turn
    \/ StartExtractAll
    \/ FirstPageStep
    \/ WeAreStep
    \/ SummaryStep
    \/ EndPageStep
    \/ SummaryTextStep
    \/ DirectorsStep
    \/ DirectorsFallbackStep
    \/ DirectorsTextStep

SpecTwin == InitTwin /\ [][NextTwin]_vars

(***************************************************************************)
(* Specification of one call of findSummarySection                         *)
(***************************************************************************)
\* how a page can name the Summary chapter: either variant, both, or the
\* word in lower case
SummaryTitles == {"SUMMARY", "Summary", "Summary\nSUMMARY", "summary"}

\* documents of n pages without text, except for one titled page, or for one
\* and the last page of the document
SummaryDocs(n) ==
    {[p \in 1..n |-> ""]}
        \cup {[p \in 1..n |-> IF p = q THEN h ELSE ""] : q \in 1..n, h \in SummaryTitles}
        \cup {[p \in 1..n |-> IF p = q THEN h ELSE IF p = n THEN "SUMMARY" ELSE ""] :
                 q \in 1..n, h \in {"Summary", "summary"}}

InitSummary ==
    /\ \E n \in 1..MaxSummaryPages : \E d \in SummaryDocs(n) : FreshExtractor(d)
    /\ faults = 0

NextSummary ==
    \/ StartFindSummary
    \/ SummaryStep
    \/ EndPageStep

SpecSummary == InitSummary /\ [][NextSummary]_vars

(***************************************************************************)
(* Properties                                                              *)
(***************************************************************************)

\* the occurrences of the title keywords in the pages of the document
DocOccurrences(keywords) ==
    {pk \in (1..numPages) \X (1..Len(keywords)) : Includes(doc[pk[1]], keywords[pk[2]])}

PrimaryFamily(companyType) ==
    IF companyType = "cayman" THEN CaymanKeywords ELSE NonCaymanKeywords

AlternateFamily(companyType) ==
    IF companyType = "cayman" THEN NonCaymanKeywords ELSE CaymanKeywords

DirectorsDone == run.op = "findDirectorsSection" /\ run.pc = "done"

RunDone == run.op = "extractAllRequiredSections" /\ run.pc = "done"

SortedByPage(occurrences) ==
    \A i, j \in 1..Len(occurrences) :
        i < j => occurrences[i].page <= occurrences[j].page

\* the index the rule of the selection names, for n collected occurrences
SelectedIndex(n) == IF n > 10 THEN 3 ELSE IF n > 2 THEN 2 ELSE n - 1

\* C1: when findDirectorsSection has collected n >= 1 occurrences, they are
\* sorted by page and the section starts at the page of the occurrence at
\* zero-based index 3 if n > 10, at index 2 if 2 < n <= 10, and at the last
\* occurrence (index n - 1) if n <= 2.
C1_SelectionByCount ==
    DirectorsDone /\ Len(run.foundOccurrences) >= 1 =>
        LET found == run.foundOccurrences
            n == Len(found)
        IN  /\ n = Cardinality(DocOccurrences(run.searchKeywords))
            /\ SortedByPage(found)
            /\ run.result # Null
            /\ run.result.startPage = found[SelectedIndex(n) + 1].page

C1_Witness ==
    /\ DirectorsDone
    /\ Len(run.foundOccurrences) > 10
    /\ run.foundOccurrences[3].page # run.foundOccurrences[4].page
    /\ run.result.startPage = run.foundOccurrences[4].page

\* C2 as stated: for every classification, when the family chosen for it has
\* no occurrence in the whole document, findDirectorsSection scans again with
\* the alternate family and returns a section if that family occurs.
C2_FallbackForEveryType ==
    DirectorsDone /\ DocOccurrences(PrimaryFamily(run.companyType)) = {} =>
        /\ run.fallback
        /\ DocOccurrences(AlternateFamily(run.companyType)) # {} => run.result # Null

\* C2 amended: the second scan is made only for a classification other than
\* cayman, and it uses the cayman family; a section is then returned iff that
\* family occurs.  A cayman document whose family has no occurrence is not
\* scanned again and the result is null.
C2_FallbackUnlessCayman ==
    DirectorsDone /\ DocOccurrences(PrimaryFamily(run.companyType)) = {} =>
        IF run.companyType # "cayman"
        THEN /\ run.fallback
             /\ run.searchKeywords = CaymanKeywords
             /\ (DocOccurrences(CaymanKeywords) # {}) <=> (run.result # Null)
        ELSE /\ ~run.fallback
             /\ run.result = Null

C2_Witness ==
    /\ DirectorsDone
    /\ run.companyType = "unknown"
    /\ DocOccurrences(NonCaymanKeywords) = {}
    /\ run.fallback
    /\ run.result # Null

\* the pages of the document that hold a statement sentence
StatementPages == {p \in 1..numPages : WeAreMatch(doc[p]) # NoMatch}

\* C3: when findSummarySection finds no Summary, the run does not abort and
\* summaryText equals weAreText; if a statement sentence exists on some page,
\* summaryText is the non-empty paragraph extracted from such a page.
C3_SummaryFallsBackToStatement ==
    RunDone /\ run.summarySection = Null =>
        /\ run.outcome = "returned"
        /\ run.result.summaryText = run.result.weAreText
        /\ StatementPages # {} =>
              /\ run.result.summaryText # ""
              /\ \E p \in StatementPages :
                    run.result.summaryText =
                        extractParagraphContaining(doc[p], WeAreMatch(doc[p]))

\* the same property in the runs whose page accesses all succeeded
C3_WhenEveryPageWasRead ==
    faults = MaxFailures => C3_SummaryFallsBackToStatement

ChunkKeys ==
    {"sponsorsChunk", "auditorsChunk", "industryConsultantsChunk",
     "legalAdvisersToCompanyChunk", "legalAdvisersToSponsorsChunk"}

\* no title keyword of the family of the run, nor of the family of its
\* second scan, occurs in the document
NoTitleOccurrence ==
    /\ DocOccurrences(PrimaryFamily(run.companyType)) = {}
    /\ run.companyType # "cayman" => DocOccurrences(CaymanKeywords) = {}

\* C4: when neither scan of findDirectorsSection finds an occurrence, the
\* section is null, the run returns (does not throw), directorsText is the
\* empty string and professionalChunks holds exactly the five keys, each
\* with an empty list.
C4_NoDirectorsSection ==
    RunDone /\ NoTitleOccurrence =>
        /\ run.directorsSection = Null
        /\ run.outcome = "returned"
        /\ run.result.directorsText = ""
        /\ DOMAIN run.result.professionalChunks = ChunkKeys
        /\ \A key \in ChunkKeys : run.result.professionalChunks[key] = <<>>

C4_Witness ==
    /\ RunDone
    /\ NoTitleOccurrence
    /\ numPages >= 2
    /\ run.fallback
    /\ run.outcome = "returned"
    /\ run.result.weAreText # ""
    /\ run.result.professionalChunks.sponsorsChunk = <<>>

\* C5: for a page number n every call of extractPageText returns the same
\* string, and the page accessor is invoked for n at most once.
C5_OneTextOneAccess ==
    \A n \in DOMAIN returned :
        /\ Cardinality(returned[n]) <= 1
        /\ accessorCalls[n] <= 1

\* C6: findChapterEndPage started at startPage requests only pages in
\* startPage + 1 .. min(startPage + 20, numPages), and the end page it
\* returns is at least startPage.
C6_EndPageSearchRange ==
    run.op = "findChapterEndPage" =>
        LET range == (run.startPage + 1)..Min2(run.startPage + 20, numPages)
        IN  /\ run.requested \subseteq range
            /\ \A n \in DOMAIN accessorCalls : accessorCalls[n] > 0 => n \in range
            /\ run.pc = "done" => run.result >= run.startPage

C6_Witness ==
    /\ run.op = "findChapterEndPage"
    /\ run.pc = "done"
    /\ numPages > run.startPage + 20
    /\ run.requested = (run.startPage + 1)..(run.startPage + 20)
    /\ run.result = run.startPage + 10

\* C7: for every keyword match at index i with length m in a text of length
\* L, the chunk is the trimmed substring from max(0, i - 50) to
\* min(L, i + m + 500): it is at most m + 550 characters long, lies within
\* the text and contains the matched substring.
C7_ChunkWindow ==
    chunk.pc = "done" =>
        \A t \in 1..Len(chunk.matches) : \A i \in 1..Len(chunk.matches[t]) :
            LET e == chunk.matches[t][i]
                text == chunk.directorsText
                lo == Max2(0, e.matchIndex - 50)
                hi == Min2(Len(text), e.matchIndex + e.matchLength + 500)
                key == professionalTypes[t].key \o "Chunk"
            IN  /\ 0 <= lo /\ lo <= hi /\ hi <= Len(text)
                /\ e.matchLength >= 1
                /\ e.chunk = Trim(SubSeq(text, lo + 1, hi))
                /\ Len(e.chunk) <= e.matchLength + 550
                /\ Includes(e.chunk, SubSeq(text, e.matchIndex + 1,
                                            e.matchIndex + e.matchLength))
                /\ chunk.result[key][i].chunk = e.chunk

C7_Witness ==
    /\ chunk.pc = "done"
    /\ \E t \in 1..Len(chunk.matches) : \E i \in 1..Len(chunk.matches[t]) :
          LET e == chunk.matches[t][i]
          IN  /\ e.matchIndex > 50
              /\ e.matchIndex + e.matchLength + 500 < Len(chunk.directorsText)
              /\ e.matchLength > 1
              /\ Len(chunk.result[professionalTypes[t].key \o "Chunk"][i].chunk)
                    > 500

SolidEnds(s) ==
    /\ Len(s) >= 1
    /\ ~IsSpace(CharAt(s, 0))
    /\ ~IsSpace(CharAt(s, Len(s) - 1))

AccessFailed == faults < MaxFailures \/ numPages = 0

\* C9: when the page accessor fails for a page during a run, or the
\* document has zero pages, extractAllRequiredSections propagates the
\* failure instead of returning a bundle.
C9_FailurePropagates ==
    RunDone /\ AccessFailed => run.outcome = "threw"

\* C10: when the page accessor fails, or the page number is outside
\* 1..numPages, extractPageText signals a failure and returns no text.
C10_FailedAccessSignalled ==
    lastCall.accessor = "failed" => lastCall.threw

\* C12: when no pattern of detectCompanyType matches the first-page text,
\* the classification of the bundle is the explicit "unknown", never a
\* concrete registration type; a match of a pattern gives that pattern's type.
C12_UnknownWhenNoPatternMatches ==
    RunDone /\ run.outcome = "returned" =>
        /\ run.result.companyType = detectCompanyType(run.result.firstPageText)
        /\ IF CaymanPattern(run.result.firstPageText)
           THEN run.result.companyType = "cayman"
           ELSE run.result.companyType = "unknown"

\* the fields metadata holds for the places of the extracted texts
LocationFields == {"directorPages", "weAreLocation"}

\* the directors chapter was located by the scan with the alternate family
LocatedByFallback == run.fallback /\ run.directorsSection # Null

\* C13: when the directors chapter is located through the alternate keyword
\* family, the metadata of the returned bundle carries an indication of it (a
\* field beyond the locations); when the primary family succeeded it does not.
C13_FallbackShownInMetadata ==
    RunDone /\ run.outcome = "returned" =>
        (LocatedByFallback <=> DOMAIN run.result.metadata # LocationFields)

\* C15: every page number passed to the page accessor lies in 1..numPages,
\* and every section returned by findSummarySection or findDirectorsSection
\* has 1 <= startPage <= endPage <= numPages, documents without pages
\* included.
C15_PagesWithinDocument ==
    /\ \A n \in DOMAIN accessorCalls : accessorCalls[n] > 0 => n \in 1..numPages
    /\ \A section \in {run.summarySection, run.directorsSection} \ {Null} :
          /\ 1 <= section.startPage
          /\ section.startPage <= section.endPage
          /\ section.endPage <= numPages

\* the double newlines of the text, by the index of their first character
DoubleNewlines(text) ==
    {j \in 0..(Len(text) - 2) : SubSeq(text, j + 1, j + 2) = "\n\n"}

\* just after the nearest double newline that ends at or before index i
NearestBreakBefore(text, i) ==
    LET ends == {j + 2 : j \in {b \in DoubleNewlines(text) : b + 2 <= i}}
    IN  IF ends = {} THEN 0 ELSE SetMax(ends)

\* the nearest double newline at or after index i, or the end of the text
NearestBreakAfter(text, i) ==
    LET starts == {b \in DoubleNewlines(text) : b >= i}
    IN  IF starts = {} THEN Len(text) ELSE SetMin(starts)

\* C19: for an anchor sentence at index i with length k,
\* extractParagraphContaining returns the trimmed text from just after the
\* nearest double newline before i (or 0) to the nearest double newline at or
\* after i + k (or the end of the text, however many characters follow).
C19_ParagraphBetweenBreaks ==
    para.pc = "done" /\ Includes(para.pageText, para.sentence) =>
        LET i == IndexOf(para.pageText, para.sentence)
            s == NearestBreakBefore(para.pageText, i)
            e == NearestBreakAfter(para.pageText, i + Len(para.sentence))
        IN  para.result = Trim(SubSeq(para.pageText, s + 1, e))

\* findDirectorsSection has chosen an occurrence
OccurrenceChosen ==
    /\ run.op = "findDirectorsSection"
    /\ run.caller = "directors" \/ (run.pc = "done" /\ run.result # Null)

\* C20: findDirectorsSection chooses an occurrence and calls
\* findChapterEndPage only when every page 1..numPages has been scanned with
\* the keyword family in use: every page has been read and every occurrence
\* of the family in the document is in the collected list.
C20_SelectionAfterFullScan ==
    OccurrenceChosen =>
        /\ \A n \in 1..numPages :
              n \in DOMAIN pageTextCache /\ accessorCalls[n] >= 1
        /\ \A pk \in DocOccurrences(run.searchKeywords) :
              \E i \in 1..Len(run.foundOccurrences) :
                 /\ run.foundOccurrences[i].page = pk[1]
                 /\ run.foundOccurrences[i].keyword = run.searchKeywords[pk[2]]

C20_Witness ==
    /\ OccurrenceChosen
    /\ run.pc = "endPage"
    /\ run.startPage < numPages
    /\ \E i \in 1..Len(run.foundOccurrences) :
          run.foundOccurrences[i].page > run.startPage

\* the lines of the text, by the index of their first character
LineStarts(text) ==
    {p \in 0..(Len(text) - 1) : p = 0 \/ CharAt(text, p - 1) = "\n"}

LineAt(text, p) ==
    LET ends == {j \in p..Len(text) : j = Len(text) \/ CharAt(text, j) = "\n"}
    IN  Substring(text, p, SetMin(ends))

\* a line that begins with an upper-case letter and holds nothing but
\* upper-case letters, white space, commas and ampersands
IsHeadingLine(line) ==
    /\ Len(line) >= 2
    /\ IsUpper(CharAt(line, 0))
    /\ \A j \in 0..(Len(line) - 1) : IsHeadingChar(CharAt(line, j))

\* the page has a heading line other than the title
HasOtherHeading(text, title) ==
    \E p \in LineStarts(text) :
        IsHeadingLine(LineAt(text, p)) /\ Trim(LineAt(text, p)) # title

EndPageDone == run.op = "findChapterEndPage" /\ run.pc = "done"

\* C17: findChapterEndPage(startPage, title) returns p - 1 for the smallest
\* page p of startPage + 1 .. min(startPage + 20, numPages) that has any
\* heading line other than title (also below a first heading line equal to
\* title), and min(startPage + 10, numPages) when the window has no such page.
C17_EndBeforeFirstOtherHeading ==
    EndPageDone =>
        LET window == (run.startPage + 1)..Min2(run.startPage + 20, numPages)
            pages == {p \in window : HasOtherHeading(doc[p], run.chapterTitle)}
        IN  run.result = IF pages = {} THEN Min2(run.startPage + 10, numPages)
                         ELSE SetMin(pages) - 1

\* the same property for the documents without a page that repeats a title
\* above another heading
C17_WhenOtherHeadingComesFirst ==
    (\A p \in 1..numPages : doc[p] # RunningTitlePage)
        => C17_EndBeforeFirstOtherHeading

\* C18: when a page access fails while findChapterEndPage scans forward,
\* the result is min(startPage + 5, numPages), not the no-heading default.
C18_FailureEndsTheScan ==
    EndPageDone /\ faults < MaxFailures =>
        run.result = Min2(run.startPage + 5, numPages)

\* the frames of the two handlers of the content script
Frames == {run, session.other}

\* the call of extractAllRequiredSections in frame r has ended
CallEnded(r) == r.pc \in {"done", "closed"}

\* r.result is a complete bundle
CompleteBundle(r) ==
    /\ DOMAIN r.result = {"firstPageText", "companyType", "weAreText", "summaryText",
                          "directorsText", "metadata", "professionalChunks"}
    /\ DOMAIN r.result.metadata = LocationFields
    /\ DOMAIN r.result.professionalChunks = ChunkKeys
    /\ \A k \in ChunkKeys :
          DOMAIN r.result.professionalChunks[k] = 1..Len(r.result.professionalChunks[k])

\* C11: every call of extractAllRequiredSections ends in exactly one of two
\* outcomes: it throws, and returns nothing, or it returns a bundle that
\* holds firstPageText, companyType, weAreText, summaryText, directorsText,
\* metadata with directorPages and weAreLocation, and professionalChunks
\* with a list for each of the five roles; until it ends it has no outcome.
C11_ThrowsOrReturnsCompleteBundle ==
    session.pc = "loaded" =>
        \A r \in Frames :
            /\ CallEnded(r) =>
                  \/ r.outcome = "threw" /\ r.result = Null
                  \/ r.outcome = "returned" /\ CompleteBundle(r)
            /\ InProgress(r) => r.outcome = "none" /\ r.result = Null

\* one call has thrown because the document could not be opened and the other
\* has returned a bundle with the text of a directors section
C11_Witness ==
    /\ session.pc = "loaded"
    /\ run.pc = "done" /\ run.outcome = "returned"
    /\ run.result.directorsText # ""
    /\ session.other.pc = "closed" /\ session.other.outcome = "threw"

\* C14: after initializePDF has opened a document, every entry of the
\* page-text cache for page n is the text of page n of the current document;
\* no entry is left from a document opened earlier or from an earlier run.
C14_CacheOfCurrentDocument ==
    (session.pc = "loaded" /\ session.opened >= 1) =>
        \A n \in DOMAIN pageTextCache :
            n <= numPages /\ pageTextCache[n] = doc[n]

\* C16: on one extractor at most one run of extractAllRequiredSections is in
\* progress and at most one page fetch is outstanding at any time, also when
\* an extractInfo message arrives during the initial section preparation.
C16_OneRunOneFetch ==
    session.pc = "loaded" =>
        /\ ~(InProgress(run) /\ InProgress(session.other))
        /\ ~(FetchOutstanding(run) /\ FetchOutstanding(session.other))

(***************************************************************************)
(* The stages of extractAllRequiredSections (extractor.js 229-291)         *)
(***************************************************************************)
\* the stage the frame is in: 1 first-page fetch, 2 type detection,
\* 3 statement search, 4 summary search, 5 directors search, 6 chunk
\* extraction, 7 completion.  Stages 2 and 6 are synchronous code, which
\* runs between two awaits; a frame is never observed inside them.
Stage(r) ==
    CASE r.pc = "idle" -> 0
      [] r.pc = "firstPage" -> 1
      [] r.pc = "weAre" -> 3
      [] r.pc \in {"summary", "summaryText"} -> 4
      [] r.pc = "endPage" /\ r.caller = "summary" -> 4
      [] r.pc \in {"directors", "directorsFallback", "directorsText"} -> 5
      [] r.pc = "endPage" /\ r.caller = "directors" -> 5
      [] r.pc = "done" -> 7

\* what the stages before the one the frame is in have left in it
StagesBeforeFinished(r) ==
    /\ Stage(r) >= 3 => r.companyType = detectCompanyType(r.firstPageText)
    /\ Stage(r) >= 4 => r.weAreResult # Null
    /\ Stage(r) >= 5 => /\ r.summarySection = Null => r.summaryText = r.weAreResult.text
                        /\ r.summarySection # Null => r.summaryText = r.chapterText
                                                     \/ Stage(r) = 7 \/ r.pc = "directorsText"
    /\ Stage(r) = 7 => r.result # Null

\* C21: within one run of extractAllRequiredSections the stages occur in the
\* order first-page fetch, type detection, statement search, summary search,
\* directors search, chunk extraction, completion: no step of the run goes
\* back to an earlier stage, and a stage is entered only when the stages
\* before it have delivered their output.
C21_StagesInOrder ==
    [][(run.op = "extractAllRequiredSections" \/ run.pc = "idle")
          => /\ Stage(run') >= Stage(run)
             /\ StagesBeforeFinished(run')]_vars

\* a run has completed after a statement, a summary section and a directors
\* section were found, each by its own stage
C21_Witness ==
    /\ run.op = "extractAllRequiredSections"
    /\ run.pc = "done"
    /\ run.weAreResult.location # Null
    /\ run.summarySection # Null
    /\ run.directorsSection # Null

RECURSIVE FlexibleEnd(_, _, _, _)
\* pieces k.. of a keyword matched at pos of the lower-cased text with zero
\* or more white-space characters between the pieces: the end, or -1
FlexibleEnd(lower, pos, tokens, k) ==
    With(TokenEnd(lower, pos, tokens[k]), LAMBDA e :
        IF e = -1 THEN -1
        ELSE IF k = Len(tokens) THEN e
        ELSE FlexibleEnd(lower, SkipSpaces(lower, e), tokens, k + 1))

\* the text holds the keyword, compared without regard to letter case and
\* with flexible white space between its tokens
FlexibleMatch(text, keyword) ==
    \E p \in 0..(Len(text) - 1) :
        FlexibleEnd(ToLowerCase(text), p, Tokens(ToLowerCase(keyword)), 1) # -1

\* C22: every multi-token keyword variant matches case-insensitively and
\* with zero or more white-space characters (newlines included) between its
\* tokens: a page that holds a title of the family searched, in another
\* letter case, wrapped across a line break or with its tokens run
\* together, is reported as an occurrence by findDirectorsSection.
C22_FlexibleHeadingMatch ==
    DirectorsDone =>
        \A p \in 1..numPages : \A k \in 1..Len(run.searchKeywords) :
            FlexibleMatch(doc[p], run.searchKeywords[k]) =>
                \E i \in 1..Len(run.foundOccurrences) :
                    run.foundOccurrences[i].page = p

RECURSIVE KeywordsOnPage(_, _, _)
\* the occurrences of keywords k.. on page p, in the order of the list
KeywordsOnPage(p, keywords, k) ==
    IF k > Len(keywords) THEN <<>>
    ELSE (IF Includes(doc[p], keywords[k])
          THEN <<[page |-> p, keyword |-> keywords[k]]>> ELSE <<>>)
         \o KeywordsOnPage(p, keywords, k + 1)

RECURSIVE OccurrencesUpTo(_, _)
\* the occurrences on pages 1..lastPage, by page and then by list order
OccurrencesUpTo(keywords, lastPage) ==
    IF lastPage = 0 THEN <<>>
    ELSE OccurrencesUpTo(keywords, lastPage - 1) \o KeywordsOnPage(lastPage, keywords, 1)

\* C23: the occurrence list of findDirectorsSection is ordered by page
\* ascending and, within a page, by variant list order, with one occurrence
\* for each (page, variant) pair that matches: during a scan it holds exactly
\* those of the pages read so far, and after the sort by page it holds those
\* of every page of the document in the same order.
C23_OccurrencesByPageThenVariant ==
    run.op = "findDirectorsSection" =>
        /\ run.pc \in {"directors", "directorsFallback"} =>
              run.foundOccurrences = OccurrencesUpTo(run.searchKeywords, run.pageNum - 1)
        /\ run.pc \in {"endPage", "done"} =>
              run.foundOccurrences = OccurrencesUpTo(run.searchKeywords, numPages)

\* a sorted list with two variants on one page and an occurrence on a later page
C23_Witness ==
    /\ DirectorsDone
    /\ Len(run.foundOccurrences) >= 3
    /\ run.foundOccurrences[1].page = run.foundOccurrences[2].page
    /\ run.foundOccurrences[1].keyword # run.foundOccurrences[2].keyword
    /\ run.foundOccurrences[2].page < run.foundOccurrences[3].page

\* a run of extractAllRequiredSections has been started
RunStarted == run.op = "extractAllRequiredSections" /\ run.pc # "idle"

\* C24: every started run of extractAllRequiredSections, on a document with
\* finitely many pages whose accessor calls each eventually return or fail,
\* eventually finishes with a bundle or an error.
C24_StartedRunFinishes == RunStarted ~> (RunDone /\ run.outcome \in {"returned", "threw"})

\* a run has finished although an accessor call failed on its way
C24_Witness == RunDone /\ faults < MaxFailures /\ numPages = MaxLivePages

\* both extractors have finished their run
TwinsDone == session.pc = "twin" /\ run.pc = "done" /\ session.other.pc = "done"

SummaryDone == run.op = "findSummarySection" /\ run.pc = "done"

\* the pages among the first 30 that hold 'SUMMARY' or 'Summary'
SummaryHits ==
    {p \in 1..Min2(30, numPages) :
        Includes(doc[p], "SUMMARY") \/ Includes(doc[p], "Summary")}

\* C26: findSummarySection returns as start page the smallest page among the
\* first min(30, numPages) whose text contains 'SUMMARY' or 'Summary'
\* (case-sensitive), with the first listed variant present on it as title;
\* it returns null when no such page exists among the first 30 pages, even
\* if a later page contains the keyword.
C26_FirstSummaryPageWithinThirty ==
    SummaryDone =>
        IF SummaryHits = {} THEN run.result = Null
        ELSE /\ run.result # Null
             /\ run.result.startPage = SetMin(SummaryHits)
             /\ run.result.title = IF Includes(doc[SetMin(SummaryHits)], "SUMMARY")
                                   THEN "SUMMARY" ELSE "Summary"
             /\ run.result.endPage \in run.result.startPage..numPages

\* null is returned for a document that names the chapter after page 30 only
C26_Witness ==
    /\ SummaryDone
    /\ run.result = Null
    /\ \E p \in 31..numPages : Includes(doc[p], "SUMMARY")

(***************************************************************************)
(* Specification of the popup (popup.js) with the content script it talks  *)
(* to: PopupController.extractInfo sends getPreparedData and extractInfo,  *)
(* the listener of content.js answers them.                                *)
(***************************************************************************)
\* what sendMessageToContent('getPreparedData') can settle with: a rejection
\* (chrome.runtime.lastError), no response, or the reply of content.js 64-69
PreparedReplies ==
    {[kind |-> "rejected"], [kind |-> "none"],
     [kind |-> "reply", success |-> session.hkexPreparedData # Null,
      data |-> session.hkexPreparedData]}

\* popup.js 245-250 accepts the reply
PreparedDataReady(prepRes) ==
    prepRes.kind = "reply" /\ prepRes.success /\ prepRes.data # Null

\* the popup is opened on the PDF page of the content script (popup.js 41-57,
\* content.js 10-37); whether the button starts disabled is left to the page
InitPopup ==
    /\ doc = <<>>
    /\ pageTextCache = <<>>
    /\ accessorCalls = [n \in 1..MaxSessionPages |-> 0]
    /\ returned = [n \in 1..MaxSessionPages |-> {}]
    /\ faults = 0
    /\ lastCall = NoCall
    /\ run = [BlankRun EXCEPT !.op = "extractAllRequiredSections",
                              !.pc = "initializePDF"]
    /\ para = IdlePara
    /\ chunk = IdleChunk
    /\ session = [pc |-> "loaded", active |-> "initializeExtractor",
                  other |-> BlankRun, isInitialized |-> FALSE, opened |-> 0,
                  hkexPreparedData |-> Null, response |-> Null]
    /\ \E disabled \in BOOLEAN :
          popup = [pc |-> "idle", isPageReady |-> FALSE, disabled |-> disabled,
                   sent |-> <<>>, prepRes |-> [kind |-> "none"], clicks |-> 0,
                   replied |-> FALSE]
    /\ message = Idle
    /\ parse = Idle

\* popup.js 137-146: the content script answers the ping
PingAnswer ==
    /\ popup.pc = "idle"
    /\ ~popup.isPageReady
    /\ popup' = [popup EXCEPT !.isPageReady = TRUE, !.disabled = FALSE]
    /\ UNCHANGED <<doc, pageTextCache, accessorCalls, faults, returned, lastCall, run,
                   para, chunk, session, message, parse>>

\* popup.js 105, 231-245: a click on the extract button runs extractInfo up
\* to its first await
ClickExtract ==
    /\ popup.pc = "idle"
    /\ ~popup.disabled
    /\ popup.clicks < MaxClicks
    /\ popup' = IF ~popup.isPageReady
                THEN [popup EXCEPT !.clicks = @ + 1]
                ELSE [popup EXCEPT !.clicks = @ + 1, !.disabled = TRUE,
                                   !.sent = <<"getPreparedData">>,
                                   !.prepRes = [kind |-> "none"],
                                   !.pc = "awaitPrepared"]
    /\ UNCHANGED <<doc, pageTextCache, accessorCalls, faults, returned, lastCall, run,
                   para, chunk, session, message, parse>>

\* the extractInfo message sent whatever getPreparedData answered
PreparedAnswerUnchecked ==
    /\ popup.pc = "awaitPrepared"
    /\ \E prepRes \in PreparedReplies :
          popup' = IF prepRes.kind = "reply"
                   THEN [popup EXCEPT !.prepRes = prepRes,
                                      !.sent = Append(@, "extractInfo"),
                                      !.pc = "awaitExtract"]
                   ELSE [popup EXCEPT !.prepRes = prepRes, !.disabled = FALSE,
                                      !.pc = "idle"]
    /\ UNCHANGED <<doc, pageTextCache, accessorCalls, faults, returned, lastCall, run,
                   para, chunk, session, message, parse>>

\* popup.js 245-258 and 274-283: the await of getPreparedData settles
PreparedAnswer ==
    /\ popup.pc = "awaitPrepared"
    /\ \E prepRes \in PreparedReplies :
          popup' = IF PreparedDataReady(prepRes)
                   THEN [popup EXCEPT !.prepRes = prepRes,
                                      !.sent = Append(@, "extractInfo"),
                                      !.pc = "awaitExtract"]
                   ELSE [popup EXCEPT !.prepRes = prepRes, !.disabled = FALSE,
                                      !.pc = "idle"]
    /\ UNCHANGED <<doc, pageTextCache, accessorCalls, faults, returned, lastCall, run,
                   para, chunk, session, message, parse>>

\* popup.js 258-283: the await of extractInfo settles, with the response of
\* handleExtractInfo or with a rejection; the finally block enables the button
ExtractAnswer ==
    /\ popup.pc = "awaitExtract"
    /\ \/ /\ session.response # Null
          /\ ~popup.replied
          /\ popup' = [popup EXCEPT !.replied = TRUE, !.disabled = FALSE, !.pc = "idle"]
       \/ popup' = [popup EXCEPT !.disabled = FALSE, !.pc = "idle"]
    /\ UNCHANGED <<doc, pageTextCache, accessorCalls, faults, returned, lastCall, run,
                   para, chunk, session, message, parse>>

NextPopup ==
    \/ PingAnswer
    \/ ClickExtract
    \/ PreparedAnswer
    \/ ExtractAnswer
    \/ (popup.pc = "awaitExtract" /\ ReceiveExtractInfo)
    \/ Resume
    \/ InitializePDFStep
    \/ PreparedStep
    \/ RespondStep
    \/ FirstPageStep
    \/ WeAreStep
    \/ SummaryStep
    \/ EndPageStep
    \/ SummaryTextStep
    \/ DirectorsStep
    \/ DirectorsFallbackStep
    \/ DirectorsTextStep

SpecPopup == InitPopup /\ [][NextPopup]_vars

\* what holds of the messages the popup has sent since the last click
PopupFlow ==
    /\ (\E i \in 1..Len(popup.sent) : popup.sent[i] = "extractInfo") =>
          /\ popup.sent = <<"getPreparedData", "extractInfo">>
          /\ PreparedDataReady(popup.prepRes)
    /\ (popup.pc = "idle" /\ popup.sent = <<"getPreparedData">>) => ~popup.disabled
    /\ popup.pc # "idle" => popup.disabled

\* C27: in the popup's extractInfo the 'extractInfo' message is sent to the
\* content script only after the 'getPreparedData' request of the same click
\* has answered with success and non-null data; a popup that is not
\* page-ready sends no message at all; and when the prepared data is missing
\* the flow stops without 'extractInfo' and the extract button is enabled
\* again.
C27_ExtractInfoAfterPreparedData ==
    [][popup.pc # "none" =>
          /\ PopupFlow'
          /\ ~popup.isPageReady => popup'.sent = popup.sent
          /\ (session.other.pc = "idle" /\ session'.other.pc # "idle") =>
                /\ popup.sent = <<"getPreparedData", "extractInfo">>
                /\ PreparedDataReady(popup.prepRes)]_vars

\* the second click on the button has had its 'extractInfo' answered by the
\* content script, and the button is enabled again
C27_Witness ==
    /\ popup.pc = "idle"
    /\ popup.clicks = 2
    /\ popup.replied
    /\ popup.sent = <<"getPreparedData", "extractInfo">>
    /\ ~popup.disabled

(***************************************************************************)
(* Specification of the message listeners of content.js (51-150) and       *)
(* background.js (16-124): one message at a time, from its arrival to the  *)
(* calls of sendResponse its handler makes.                                *)
(***************************************************************************)
ContentActions ==
    {"ping", "getPreparedData", "extractInfo", "getFormattedText", "getChineseVersion"}

BackgroundActions == {"checkPageStatus", "injectContentScript", "downloadPDF"}

\* sendResponse({ success: false, error: error.message })
Failure == [success |-> FALSE, error |-> "message"]

\* sendResponse({ success: true, ... })
Success == [success |-> TRUE]

\* the pages a listener can run on: window.prospectusExtractor created or
\* not, window.hkexPreparedData holding the sections (TRUE) or null, the
\* active tab found or not
InitMessages ==
    /\ doc = <<>>
    /\ pageTextCache = <<>>
    /\ accessorCalls = <<>>
    /\ faults = 0
    /\ returned = <<>>
    /\ lastCall = NoCall
    /\ run = BlankRun
    /\ para = IdlePara
    /\ chunk = IdleChunk
    /\ session = IdleSession
    /\ popup = Idle
    /\ parse = Idle
    /\ \E extractor \in BOOLEAN : \E prepared \in BOOLEAN : \E tab \in BOOLEAN :
          message = [pc |-> "listening", action |-> "none", extractor |-> extractor,
                     hkexPreparedData |-> prepared, tab |-> tab, responses |-> <<>>,
                     handled |-> 0]

\* the listener takes a message and its handler runs up to its first await,
\* or to its end when it has none
AcceptMessage ==
    /\ message.pc \in {"listening", "answered"}
    /\ message.handled < MaxMessages
    /\ \E action \in ContentActions \cup BackgroundActions : \E valid \in BOOLEAN :
       \E m \in {[message EXCEPT !.action = action, !.responses = <<>>,
                                 !.handled = @ + 1]} :
          message' =
             CASE action = "ping" ->
                    [m EXCEPT !.responses = <<Success>>, !.pc = "answered"]
               [] action = "getPreparedData" ->
                    [m EXCEPT !.responses = <<[success |-> m.hkexPreparedData,
                                               data |-> m.hkexPreparedData]>>,
                              !.pc = "answered"]
               [] action = "extractInfo" -> [m EXCEPT !.pc = "awaiting"]
               [] action = "getFormattedText" ->
                    [m EXCEPT !.responses = <<IF m.extractor /\ valid THEN Success
                                              ELSE Failure>>,
                              !.pc = "answered"]
               [] action = "getChineseVersion" ->
                    IF m.extractor THEN [m EXCEPT !.pc = "awaiting"]
                    ELSE [m EXCEPT !.responses = <<Failure>>, !.pc = "answered"]
               [] action \in {"checkPageStatus", "injectContentScript"} ->
                    [m EXCEPT !.pc = "awaiting"]
               [] action = "downloadPDF" ->
                    IF valid THEN [m EXCEPT !.pc = "awaiting"]
                    ELSE [m EXCEPT !.responses = <<Failure>>, !.pc = "answered"]
    /\ UNCHANGED <<doc, pageTextCache, accessorCalls, faults, returned, lastCall, run,
                   para, chunk, session, popup, parse>>

\* what the handler awaits settles: it returns (ok) or throws, and the
\* handler runs to its end
SettleMessage ==
    /\ message.pc = "awaiting"
    /\ \E ok \in BOOLEAN : \E sections \in BOOLEAN :
          message' =
             CASE message.action = "extractInfo" ->
                    [message EXCEPT !.extractor = @ \/ ok,
                                    !.hkexPreparedData =
                                        IF ~message.extractor /\ ok THEN sections ELSE @,
                                    !.responses = <<IF ok THEN Success ELSE Failure>>,
                                    !.pc = "answered"]
               [] message.action \in {"checkPageStatus", "injectContentScript"} ->
                    [message EXCEPT !.responses = <<IF ok /\ message.tab THEN Success
                                                    ELSE Failure>>,
                                    !.pc = "answered"]
               [] message.action \in {"getChineseVersion", "downloadPDF"} ->
                    [message EXCEPT !.responses = <<IF ok THEN Success ELSE Failure>>,
                                    !.pc = "answered"]
    /\ UNCHANGED <<doc, pageTextCache, accessorCalls, faults, returned, lastCall, run,
                   para, chunk, session, popup, parse>>

SpecMessages == InitMessages /\ [][AcceptMessage \/ SettleMessage]_vars

\* C28: for every message with a recognised action sendResponse is called
\* exactly once on every execution path, with a success flag, and a failure
\* response carries success = false and an error message.
C28_OneResponseWithErrorOnFailure ==
    /\ message.pc = "awaiting" => message.responses = <<>>
    /\ message.pc = "answered" =>
          /\ Len(message.responses) = 1
          /\ message.responses[1].success \in BOOLEAN
          /\ ~message.responses[1].success =>
                /\ "error" \in DOMAIN message.responses[1]
                /\ message.responses[1].error # ""

(***************************************************************************)
(* Specification of parseServiceProviders and callAI (parser.js 191-492).  *)
(* Every JavaScript value is a record with its type in field t.            *)
(***************************************************************************)
Undefined == [t |-> "undefined"]

NullValue == [t |-> "null"]

Arr(items) == [t |-> "array", items |-> items]

ObjectKeys == {"sponsors", "auditors", "consultants", "company"}

EmptyObject == [t |-> "object", f |-> [k \in ObjectKeys |-> Undefined]]

\* text that is not JSON
NotJSON == [t |-> "text"]

\* a string: the JSON text of body, or text that is not JSON, inside a
\* markdown fence or not, with or without a line break after the closing fence
Str(fence, trailing, body) ==
    [t |-> "string", fence |-> fence, trailing |-> trailing, body |-> body]

\* what the AI service can put in the JSON text of an answer
JSONValues ==
    {EmptyObject, NullValue, Arr(<<"A">>),
     [t |-> "object",
      f |-> [k \in ObjectKeys |-> IF k = "consultants" THEN Undefined ELSE Arr(<<k>>)]],
     [t |-> "object",
      f |-> [k \in ObjectKeys |-> IF k = "consultants" THEN Arr(<<k>>) ELSE Undefined]],
     [t |-> "object", f |-> [k \in ObjectKeys |-> Str("none", FALSE, NotJSON)]]}

\* choices[0].message.content: missing, null, or a string
Contents ==
    {Undefined, NullValue}
        \cup {Str("none", FALSE, b) : b \in JSONValues \cup {NotJSON}}
        \cup {Str(fence, trailing, b) : fence \in {"json", "plain"}, trailing \in BOOLEAN,
                                        b \in JSONValues \cup {NotJSON}}

\* what fetch and response.json() can do: fetch rejects, the status is not
\* OK, the body is not JSON, the data has no choices[0].message, or it has one
Replies ==
    {[kind |-> k, content |-> Undefined] : k \in {"network", "status", "body", "nomessage"}}
        \cup {[kind |-> "message", content |-> c] : c \in Contents}

\* this.aiConfig: as constructed (lines 29-33) or configured
AIConfigs ==
    {[enabled |-> FALSE, apiKey |-> "", endpoint |-> ""],
     [enabled |-> TRUE, apiKey |-> "key", endpoint |-> "url"]}

\* window.HKEXConfig.ai: absent, as shipped in config.js, filled in,
\* switched off, or without a setting
HKEXConfigs ==
    {[present |-> FALSE, enabled |-> "undefined", apiKey |-> "", endpoint |-> ""],
     [present |-> TRUE, enabled |-> "true", apiKey |-> "", endpoint |-> "url"],
     [present |-> TRUE, enabled |-> "true", apiKey |-> "key", endpoint |-> "url"],
     [present |-> TRUE, enabled |-> "false", apiKey |-> "key", endpoint |-> "url"],
     [present |-> TRUE, enabled |-> "undefined", apiKey |-> "", endpoint |-> ""]}

\* lines 438-445: the configuration a call works with
EffectiveConfig(aiConfig, HKEXConfig) ==
    IF HKEXConfig.present
    THEN [endpoint |-> IF HKEXConfig.endpoint # "" THEN HKEXConfig.endpoint
                       ELSE aiConfig.endpoint,
          apiKey |-> IF HKEXConfig.apiKey # "" THEN HKEXConfig.apiKey ELSE aiConfig.apiKey,
          enabled |-> IF HKEXConfig.enabled # "undefined" THEN HKEXConfig.enabled = "true"
                      ELSE aiConfig.enabled]
    ELSE aiConfig

\* JSON.parse(text) succeeds
Parses(text) ==
    text.t = "null" \/ (text.t = "string" /\ text.fence = "none" /\ text.body.t # "text")

\* JSON.parse(text), where it succeeds
JSONParse(text) == IF text.t = "null" THEN NullValue ELSE text.body

callAI(aiConfig, HKEXConfig, reply) ==
    LET config == EffectiveConfig(aiConfig, HKEXConfig) IN
    IF ~config.enabled THEN [sent |-> FALSE, result |-> EmptyObject]
    ELSE IF config.endpoint = "" \/ config.apiKey = ""
    THEN [sent |-> FALSE, result |-> EmptyObject]
    ELSE IF reply.kind \in {"network", "status", "body", "nomessage"}
    THEN [sent |-> TRUE, result |-> EmptyObject]
    ELSE IF Parses(reply.content) THEN [sent |-> TRUE, result |-> JSONParse(reply.content)]
    ELSE [sent |-> TRUE, result |-> reply.content]

\* result.replace(/^```[a-zA-Z]*\n?/, '').replace(/```$/g, '').trim()
StripFence(result) ==
    IF result.fence = "none" THEN result
    ELSE IF result.trailing THEN [result EXCEPT !.fence = "closing"]
    ELSE [result EXCEPT !.fence = "none"]

\* try { JSON.parse(result) } catch { {} }
ParseOrEmpty(result) == IF Parses(result) THEN JSONParse(result) ELSE EmptyObject

\* lines 353-364: the list an answer holds under key, or the empty list
ListUnder(result, key) ==
    LET parsed == IF result.t = "string" THEN ParseOrEmpty(StripFence(result)) ELSE result IN
    IF parsed.t = "array" THEN parsed
    ELSE IF parsed.t = "object" /\ parsed.f[key].t = "array" THEN parsed.f[key]
    ELSE Arr(<<>>)

\* extractIndustryConsultantsWithAI without lines 422-424
ConsultantsAsAnswered(result) ==
    IF result.t = "string" THEN ParseOrEmpty(StripFence(result)) ELSE result

extractSponsorsWithAI(result) == ListUnder(result, "sponsors")

extractAuditorsWithAI(result) == ListUnder(result, "auditors")

extractIndustryConsultantsWithAI(result) == ListUnder(result, "consultants")

\* lines 315-334: the answer with company and sponsors made lists
extractLegalAdvisers(result) ==
    LET parsed == IF result.t = "string"
                  THEN ParseOrEmpty([result EXCEPT !.fence = "none", !.trailing = FALSE])
                  ELSE result
        object == IF parsed.t \in {"object", "array"} THEN parsed ELSE EmptyObject
        under(key) == IF object.t = "object" /\ object.f[key].t = "array" THEN object.f[key]
                      ELSE Arr(<<>>)
    IN  [array |-> object.t = "array",
         items |-> IF object.t = "array" THEN object.items ELSE <<>>,
         company |-> under("company"),
         sponsors |-> under("sponsors")]

Roles ==
    <<"sponsors", "industryConsultants", "legalAdvisersToCompany",
      "legalAdvisersToSponsors", "legalAdvisor", "auditors">>

ParserChunkKeys == {Roles[i] \o "Chunk" : i \in 1..Len(Roles)}

\* a role's chunk list: items that carry text, or one item without text
ChunkLists ==
    {Arr([i \in 1..n |-> [keyword |-> "Sponsor", chunk |-> "Sole Sponsor X"]]) :
        n \in 0..MaxChunkItems}
        \cup {Arr(<<[keyword |-> "Sponsor", chunk |-> ""]>>)}

\* the chunks object: some of the keys parseServiceProviders reads (those
\* extractProfessionalChunks fills, and legalAdvisorChunk), each with a chunk
\* list
ChunkInputs ==
    {[k \in ParserChunkKeys |-> IF k \in present THEN list ELSE Undefined] :
        present \in SUBSET ParserChunkKeys, list \in ChunkLists}

RECURSIVE JoinChunks(_)
\* items.map(item => item.chunk).join('\n')
JoinChunks(items) ==
    IF items = <<>> THEN ""
    ELSE IF Len(items) = 1 THEN items[1].chunk
    ELSE items[1].chunk \o "\n" \o JoinChunks(Tail(items))

\* Array.isArray(chunks[key]) ? chunks[key].map(...).join('\n') : ''
ChunkText(chunks, key) ==
    IF chunks[key].t = "array" THEN JoinChunks(chunks[key].items) ELSE ""

\* the conditions of lines 197, 215, 227, 245, 263 and 278
NeedsAI(chunks, role) ==
    IF role = "legalAdvisor"
    THEN /\ ChunkText(chunks, "legalAdvisersToCompanyChunk") = ""
         /\ ChunkText(chunks, "legalAdvisersToSponsorsChunk") = ""
         /\ ChunkText(chunks, "legalAdvisorChunk") # ""
    ELSE ChunkText(chunks, role \o "Chunk") # ""

RECURSIVE RunToAwait(_)
\* parseServiceProviders up to its next call of the AI service, or to its
\* return
RunToAwait(p) ==
    IF p.role > Len(Roles) THEN [p EXCEPT !.pc = "done"]
    ELSE IF NeedsAI(p.chunks, Roles[p.role])
    THEN [p EXCEPT !.pc = "awaiting", !.invoked = Append(@, Roles[p.role])]
    ELSE RunToAwait([p EXCEPT !.role = @ + 1])

NoAnswer == [sent |-> FALSE, kind |-> "none", content |-> "none", result |-> Undefined]

InitParser ==
    /\ doc = <<>>
    /\ pageTextCache = <<>>
    /\ accessorCalls = <<>>
    /\ faults = 0
    /\ returned = <<>>
    /\ lastCall = NoCall
    /\ run = BlankRun
    /\ para = IdlePara
    /\ chunk = IdleChunk
    /\ session = IdleSession
    /\ popup = Idle
    /\ message = Idle
    /\ \E aiConfig \in AIConfigs : \E HKEXConfig \in HKEXConfigs :
          parse = [pc |-> "idle", aiConfig |-> aiConfig, HKEXConfig |-> HKEXConfig,
                   chunks |-> [k \in ParserChunkKeys |-> Undefined], role |-> 1,
                   invoked |-> <<>>, requests |-> 0, last |-> NoAnswer,
                   sponsors |-> Arr(<<>>), auditors |-> Arr(<<>>),
                   industryConsultants |-> Arr(<<>>),
                   legalAdvisersToCompany |-> Arr(<<>>),
                   legalAdvisersToSponsors |-> Arr(<<>>)]

ParserUnchanged ==
    UNCHANGED <<doc, pageTextCache, accessorCalls, faults, returned, lastCall, run, para,
                chunk, session, popup, message>>

StartParse ==
    /\ parse.pc = "idle"
    /\ \E chunks \in ChunkInputs : parse' = RunToAwait([parse EXCEPT !.chunks = chunks])
    /\ ParserUnchanged

\* the call of callAI the awaiting helper made returns
Answered(p, reply) ==
    LET answer == callAI(p.aiConfig, p.HKEXConfig, reply) IN
    [p EXCEPT !.requests = @ + (IF answer.sent THEN 1 ELSE 0),
              !.last = [sent |-> answer.sent, kind |-> reply.kind,
                        content |-> reply.content.t, result |-> answer.result],
              !.role = @ + 1]

\* lines 198-206
SponsorsReply ==
    /\ parse.pc = "awaiting"
    /\ Roles[parse.role] = "sponsors"
    /\ \E reply \in Replies : \E p \in {Answered(parse, reply)} :
       \E sponsorRes \in {extractSponsorsWithAI(p.last.result)} :
          parse' = RunToAwait([p EXCEPT !.sponsors =
                       IF sponsorRes.t = "array" THEN sponsorRes
                       ELSE IF sponsorRes.t = "object"
                               /\ sponsorRes.f["sponsors"].t \notin {"undefined", "null"}
                       THEN sponsorRes.f["sponsors"]
                       ELSE Arr(<<>>)])
    /\ ParserUnchanged

\* line 216
ConsultantsReply ==
    /\ parse.pc = "awaiting"
    /\ Roles[parse.role] = "industryConsultants"
    /\ \E reply \in Replies : \E p \in {Answered(parse, reply)} :
          parse' = RunToAwait([p EXCEPT !.industryConsultants =
                                   extractIndustryConsultantsWithAI(p.last.result)])
    /\ ParserUnchanged

\* lines 230-235, 248-253 and 266-268
LegalReply ==
    /\ parse.pc = "awaiting"
    /\ Roles[parse.role] \in {"legalAdvisersToCompany", "legalAdvisersToSponsors",
                              "legalAdvisor"}
    /\ \E reply \in Replies : \E p \in {Answered(parse, reply)} :
       \E res \in {extractLegalAdvisers(p.last.result)} :
          parse' = RunToAwait(
             CASE Roles[parse.role] = "legalAdvisersToCompany" ->
                    [p EXCEPT !.legalAdvisersToCompany =
                        IF res.company.t = "array" THEN res.company
                        ELSE IF res.array THEN Arr(res.items) ELSE @]
               [] Roles[parse.role] = "legalAdvisersToSponsors" ->
                    [p EXCEPT !.legalAdvisersToSponsors =
                        IF res.sponsors.t = "array" THEN res.sponsors
                        ELSE IF res.array THEN Arr(res.items) ELSE @]
               [] Roles[parse.role] = "legalAdvisor" ->
                    [p EXCEPT !.legalAdvisersToCompany =
                                  IF res.company.t = "array" THEN res.company ELSE @,
                              !.legalAdvisersToSponsors =
                                  IF res.sponsors.t = "array" THEN res.sponsors ELSE @])
    /\ ParserUnchanged

\* lines 279-286
AuditorsReply ==
    /\ parse.pc = "awaiting"
    /\ Roles[parse.role] = "auditors"
    /\ \E reply \in Replies : \E p \in {Answered(parse, reply)} :
       \E auditorRes \in {extractAuditorsWithAI(p.last.result)} :
          parse' = RunToAwait([p EXCEPT !.auditors =
                       IF auditorRes.t = "array" THEN auditorRes
                       ELSE IF auditorRes.t = "object"
                               /\ auditorRes.f["auditors"].t \notin {"undefined", "null"}
                       THEN auditorRes.f["auditors"]
                       ELSE Arr(<<>>)])
    /\ ParserUnchanged

NextParser ==
    \/ StartParse
    \/ SponsorsReply
    \/ ConsultantsReply
    \/ LegalReply
    \/ AuditorsReply

SpecParser == InitParser /\ [][NextParser]_vars

ParseResultFields ==
    {"sponsors", "auditors", "industryConsultants", "legalAdvisersToCompany",
     "legalAdvisersToSponsors"}

\* the roles whose answer can fill a field of the result
RolesFilling(field) ==
    IF field \in {"legalAdvisersToCompany", "legalAdvisersToSponsors"}
    THEN {field, "legalAdvisor"}
    ELSE {field}

\* C29: parseServiceProviders calls the AI service for a role only when the
\* role's chunk list yields non-empty text, and whatever the service answers
\* (object, array, string, fenced string, failure) each of the five fields
\* of the result is a list, empty when no call was made for it.
C29_ListsForEveryAnswer ==
    /\ \A i \in 1..Len(parse.invoked) :
          ChunkText(parse.chunks, parse.invoked[i] \o "Chunk") # ""
    /\ parse.pc = "done" =>
          \A field \in ParseResultFields :
             /\ parse[field].t = "array"
             /\ (\A i \in 1..Len(parse.invoked) : parse.invoked[i] \notin RolesFilling(field))
                   => parse[field].items = <<>>

\* a call returned with sponsors found and no auditors, after the service
\* was asked for these two roles only and the last request was sent
C29_Witness ==
    /\ parse.pc = "done"
    /\ parse.invoked = <<"sponsors", "auditors">>
    /\ parse.sponsors.items # <<>>
    /\ parse.auditors.items = <<>>
    /\ parse.last.sent

\* the effective configuration keeps callAI from sending
AIOff(p) ==
    LET config == EffectiveConfig(p.aiConfig, p.HKEXConfig) IN
    ~config.enabled \/ config.endpoint = "" \/ config.apiKey = ""

\* C30: callAI sends no request when the effective configuration has AI
\* disabled or lacks the endpoint or the key, and then, as on a non-OK
\* status, a malformed response or a network exception, it returns the
\* empty object.
C30_EmptyObjectOnFailure ==
    parse.last.kind # "none" =>
       /\ AIOff(parse) => ~parse.last.sent /\ parse.last.result = EmptyObject
       /\ (\/ parse.last.kind \in {"network", "status", "body", "nomessage"}
           \/ parse.last.content \in {"undefined", "null"})
             => parse.last.result = EmptyObject
====
